---- MODULE Spec2Model ----
(***************************************************************************)
(* Model of the agent tool-calling loop of aguirreibarra/ai-github-action: *)
(* GitHubAgent (src/src/github_agent.py, and its earlier form in           *)
(* src/github_agent.py): tool registration, execute_tool and the           *)
(* process_message loop, with the model backend and the tool executors of  *)
(* src/tools/github_tools.py as nondeterministic collaborators.            *)
(***************************************************************************)
EXTENDS Naturals, Sequences, FiniteSets, TLC

VARIABLES
    action_type,          \* GitHubAgent.action_type
    auto_approve_env,     \* os.environ["AUTO_APPROVE"]
    custom_prompt,        \* GitHubAgent.custom_prompt
    tool_implementations, \* GitHubAgent._tool_implementations (names, in order)
    tools,                \* GitHubAgent.tools (advertised names, in order)
    message,              \* process_message argument
    context,              \* process_message argument
    conversation_history, \* process_message argument
    max_iterations,       \* process_message argument
    messages,             \* local list `messages`
    iteration_count,      \* local `iteration_count`
    pc,                   \* position of the run inside process_message
    tool_calls,           \* assistant_message.tool_calls of the current turn
    idx,                  \* position of the for-loop over tool_calls
    result,               \* the dict returned by process_message
    model_calls,          \* history: number of chat.completions.create calls
    sent,                 \* history: `messages` as passed to the last model call
    executed,             \* history: executor invocations <<turn, index, call>>
    outcome,              \* history: how the run ended
    failure,              \* history: text of the exception that was caught
    turns,                \* history: completed work, one entry per model response
    generation,           \* which code runs: "legacy", "agent" or "sdk" (see Generations)
    event,                \* the inbound event record
    drv_pc,               \* position of the driver and of main around it
    drv_outcome,          \* how the driver's run() ended
    drv_error,            \* str(e) of the exception the driver met
    orchestrator_runs,    \* history: process_message / Runner.run invocations of this run
    drv_dispatches,       \* history: execute_tool calls made by the driver itself
    comments,             \* the comments of the pull request or issue, in list order
    next_id,              \* id the collaborator gives the next new comment
    listed,               \* list(pr.get_issue_comments()) as read by update-or-create
    uoc_args,             \* header_marker and body update-or-create was called with
    uoc_result,           \* the dict update-or-create returned
    published,            \* history: bodies the drivers have published
    runs_done,            \* history: driver runs that have ended
    exit_code,            \* exit status of the process
    completed_logged,     \* "Action completed successfully" was logged
    max_turns,            \* MAX_TURNS of src/src/constants.py in this process
    sdk_turns,            \* turns the SDK runner has taken
    approvals,            \* history: approving reviews submitted
    github,               \* issues, labels, reviews and review comments written to GitHub
    validation,           \* a structured answer being built into its schema
    approved,             \* the approved flag of the PR driver's result
    matching,             \* the file selection of a driver: its inputs and what it returned
    racers,               \* concurrent update-or-create invocations on one PR
    heap,                 \* list objects by identity, for runs that share an agent
    runs,                 \* concurrent process_message runs on one agent
    lookup                \* the last tool name handed to a dispatcher, and its fate

\* the state of the drivers and of the process around GitHubAgent
outer == <<generation, event, drv_pc, drv_outcome, drv_error, orchestrator_runs,
           drv_dispatches, comments, next_id, listed, uoc_args, uoc_result,
           published,
           runs_done, exit_code, completed_logged, max_turns, sdk_turns,
           approvals, github, validation, approved, matching, racers, heap, runs,
           lookup>>

config == <<action_type, auto_approve_env, custom_prompt, tool_implementations,
            tools, message, context, conversation_history, max_iterations,
            outer>>

vars == <<action_type, auto_approve_env, custom_prompt, tool_implementations,
          tools, message, context, conversation_history, max_iterations,
          messages, iteration_count, pc, tool_calls, idx, result,
          model_calls, sent, executed, outcome, failure, turns, outer>>

-----------------------------------------------------------------------------
(* Bounds of the model.                                                     *)

\* largest iteration ceiling a run is started with
MaxCeiling == 2
\* largest number of ToolCalls in one model response
MaxToolCalls == 2
\* sequential runs of a driver on the same pull request or issue
MaxRuns == 2

-----------------------------------------------------------------------------
(* Values.                                                                  *)

\* Python None (a content that is absent)
None == "<None>"

ActionTypes == {"pr-review", "issue-analyze"}
AutoApproveValues == {"false"}
CustomPrompts == {None}
Contexts == {"PR review for acme/widgets#42"}
UserMessages == {"Please review this pull request"}
Histories == {<< >>}
Ceilings == 0..MaxCeiling

\* what the model backend may put in a response
Contents == {None, "LGTM"}
\* str(e) of the exceptions the collaborators raise
ModelFailures == {"Connection error"}
ToolFailures == {"404 Not Found"}

\* src/src/github_agent.py:181
LimitContent == "I've reached the maximum number of operations. Please break down your request into smaller steps."

-----------------------------------------------------------------------------
(* Pure functions of GitHubAgent.                                           *)

\* str.lower() on the values AUTO_APPROVE takes here
Lower(s) == CASE s = "TRUE" -> "true"
              [] s = "True" -> "true"
              [] OTHER -> s

\* str.startswith
StartsWith(s, prefix) ==
    /\ Len(s) >= Len(prefix)
    /\ SubSeq(s, 1, Len(prefix)) = prefix

\* _register_tools: the tool implementations for an action type
RegisterTools(at, env) ==
    <<"get_repository", "get_repository_file_content", "get_repository_stats">>
    \o (IF at = "pr-review"
        THEN <<"get_pull_request", "get_pull_request_files",
               "get_pull_request_diff", "update_or_create_pr_comment">>
             \o (IF Lower(env) = "true" THEN <<"approve_pull_request">> ELSE << >>)
        ELSE << >>)
    \o (IF at = "issue-analyze"
        THEN <<"get_issue", "add_issue_comment", "update_or_create_issue_comment">>
        ELSE << >>)

\* [tool.to_openai_tool() for tool in ...]: the advertised function names
AdvertisedTools(impls) == [i \in 1..Len(impls) |-> impls[i]]

\* _get_system_prompt
DefaultPrompt == "You are an AI assistant that helps with GitHub repositories. You can analyze pull requests, issues, and code. Provide clear, concise, and helpful responses. Always use the available tools to gather information before making judgments."

GetSystemPrompt(custom, ctx) ==
    IF custom # None /\ custom # ""
    THEN custom
    ELSE IF ctx # None /\ ctx # ""
         THEN DefaultPrompt \o "\n\nContext: " \o ctx
         ELSE DefaultPrompt

\* variant: the system prompt is put after the user message
SeedMessagesSystemLast(custom, ctx, history, msg) ==
    <<[role |-> "user", content |-> msg]>>
    \o history
    \o <<[role |-> "system", content |-> GetSystemPrompt(custom, ctx)]>>

\* the list built at the start of process_message
SeedMessages(custom, ctx, history, msg) ==
    <<[role |-> "system", content |-> GetSystemPrompt(custom, ctx)]>>
    \o history
    \o <<[role |-> "user", content |-> msg]>>

-----------------------------------------------------------------------------
(* The collaborators: tool executors and the values they produce.           *)

\* Python values a tool returns: None, str, int, bool, list, dict (a dict is
\* its items in insertion order)
PyNone == [t |-> "none"]

PyS(s) == [t |-> "str", s |-> s]

PyI(n) == [t |-> "int", n |-> n]

PyB(b) == [t |-> "bool", b |-> b]

PyList(items) == [t |-> "list", items |-> items]

PyDict(items) == [t |-> "dict", items |-> items]

\* one item of a dict
Item(k, v) == [k |-> k, v |-> v]

\* str() of a digit
DigitStr(d) ==
    CASE d = 0 -> "0" [] d = 1 -> "1" [] d = 2 -> "2" [] d = 3 -> "3"
      [] d = 4 -> "4" [] d = 5 -> "5" [] d = 6 -> "6" [] d = 7 -> "7"
      [] d = 8 -> "8" [] OTHER -> "9"

\* str() of a natural number
RECURSIVE IntStr(_)
IntStr(n) == IF n < 10 THEN DigitStr(n)
             ELSE IntStr(n \div 10) \o DigitStr(n % 10)

\* repr() of a Python value (the strings here hold no quote, backslash or
\* control character, so repr puts them between single quotes as they are)
RECURSIVE PyRepr(_)
RECURSIVE ReprItems(_, _)
ReprItems(items, isdict) ==
    IF Len(items) = 0 THEN ""
    ELSE (IF isdict
          THEN "'" \o items[1].k \o "': " \o PyRepr(items[1].v)
          ELSE PyRepr(items[1]))
         \o (IF Len(items) = 1 THEN "" ELSE ", ")
         \o ReprItems(Tail(items), isdict)

PyRepr(x) ==
    CASE x.t = "none" -> "None"
      [] x.t = "str" -> "'" \o x.s \o "'"
      [] x.t = "int" -> IntStr(x.n)
      [] x.t = "bool" -> IF x.b THEN "True" ELSE "False"
      [] x.t = "list" -> "[" \o ReprItems(x.items, FALSE) \o "]"
      [] OTHER -> "{" \o ReprItems(x.items, TRUE) \o "}"

\* what the GitHub collaborator holds for acme/widgets, pull request 42 and
\* issue 42
Timestamp == PyS("2024-01-01T00:00:00+00:00")

PullRequestFile ==
    PyDict(<<Item("filename", PyS("a.py")), Item("status", PyS("modified")),
             Item("additions", PyI(10)), Item("deletions", PyI(2)),
             Item("changes", PyI(12)),
             Item("blob_url", PyS("https://github.com/acme/widgets/blob/1/a.py")),
             Item("raw_url", PyS("https://github.com/acme/widgets/raw/1/a.py")),
             Item("patch", PyS("@@ -1 +1 @@"))>>)

CommentUrl == PyS("https://github.com/acme/widgets/issues/42#issuecomment-1")

\* class PRReviewEvent: the events a review is submitted with
PRReviewEvents == {"APPROVE", "REQUEST_CHANGES", "COMMENT"}

\* review.state of the review GitHub records for an event
ReviewState(ev) ==
    CASE ev = "APPROVE" -> "APPROVED"
      [] ev = "REQUEST_CHANGES" -> "CHANGES_REQUESTED"
      [] OTHER -> "COMMENTED"

\* bodies a review is submitted with: None where the call has no body
ReviewBodies == {None, "LGTM"}

\* CreatePullRequestReviewTool.execute: the body passed to create_review,
\* "" where none is passed
ReviewBody(ev, body) ==
    IF body # None THEN body
    ELSE IF ev = "APPROVE" THEN "Approved after review" ELSE ""

\* the dict CreatePullRequestReviewTool.execute returns
ReviewResult(ev, body) ==
    PyDict(<<Item("id", PyI(1)), Item("state", PyS(ReviewState(ev))),
             Item("body", PyS(ReviewBody(ev, body))),
             Item("submitted_at", Timestamp)>>)

\* the dict CreatePullRequestReviewCommentTool.execute returns
ReviewCommentResult ==
    PyDict(<<Item("id", PyI(1)),
             Item("url", PyS("https://github.com/acme/widgets/pull/42#discussion_r1"))>>)

\* the result of the approval tool, whose class is not part of the sources:
\* the record of the review it submits
ApprovePullRequestResult ==
    PyDict(<<Item("id", PyI(1)), Item("state", PyS("APPROVED"))>>)

\* return values of GitHubTool.execute, by tool name
ExecutorResults(name) ==
    CASE name = "get_pull_request" ->
            {PyDict(<<Item("number", PyI(42)), Item("title", PyS("Add widget")),
                      Item("body", PyS("Adds a widget")),
                      Item("state", PyS("open")), Item("user", PyS("octocat")),
                      Item("created_at", Timestamp),
                      Item("updated_at", Timestamp),
                      Item("merged", PyB(FALSE)), Item("mergeable", PyB(TRUE)),
                      Item("comments", PyI(0)), Item("commits", PyI(1)),
                      Item("additions", PyI(10)), Item("deletions", PyI(2)),
                      Item("changed_files", PyI(1))>>)}
      [] name = "get_pull_request_files" ->
            {PyList(<< >>), PyList(<<PullRequestFile>>)}
      [] name = "get_pull_request_diff" ->
            {PyS("@@ -1 +1 @@"), PyS("No diff available for file a.py"),
             PyS("File a.py not found in pull request 42")}
      [] name \in {"add_pull_request_comment", "add_issue_comment"} ->
            {PyDict(<<Item("id", PyI(1)), Item("url", CommentUrl)>>)}
      [] name = "list_pull_request_comments" ->
            {PyList(<< >>)}
      [] name \in {"update_or_create_pr_comment",
                   "update_or_create_issue_comment"} ->
            {PyDict(<<Item("id", PyI(1)), Item("url", CommentUrl),
                      Item("action", PyS("updated"))>>),
             PyDict(<<Item("id", PyI(1)), Item("url", CommentUrl),
                      Item("action", PyS("created"))>>)}
      [] name = "get_repository" ->
            {PyDict(<<Item("name", PyS("widgets")),
                      Item("full_name", PyS("acme/widgets")),
                      Item("description", PyS("Widgets")),
                      Item("language", PyS("Python")),
                      Item("topics", PyList(<< >>)),
                      Item("forks", PyI(0)), Item("stars", PyI(0)),
                      Item("open_issues", PyI(1)),
                      Item("created_at", Timestamp),
                      Item("updated_at", Timestamp),
                      Item("default_branch", PyS("main")),
                      Item("license", PyNone)>>)}
      [] name = "get_issue" ->
            {PyDict(<<Item("number", PyI(42)), Item("title", PyS("Bug")),
                      Item("body", PyS("It crashes")),
                      Item("state", PyS("open")), Item("user", PyS("octocat")),
                      Item("created_at", Timestamp),
                      Item("updated_at", Timestamp),
                      Item("comments", PyI(0)),
                      Item("labels", PyList(<< >>)),
                      Item("assignees", PyList(<< >>))>>)}
      [] name = "get_repository_file_content" ->
            {PyS("print(1)"), PyS("This is a directory, not a file"),
             PyS("Error: 404 Not Found")}
      [] name = "get_repository_stats" ->
            {PyDict(<<Item("name", PyS("widgets")),
                      Item("full_name", PyS("acme/widgets")),
                      Item("forks", PyI(0)), Item("stars", PyI(0)),
                      Item("watchers", PyI(0)), Item("open_issues", PyI(1)),
                      Item("network_count", PyI(0)),
                      Item("subscribers_count", PyI(0)),
                      Item("size", PyI(1)),
                      Item("open_pull_requests", PyI(1)),
                      Item("commit_activity", PyList(<< >>)),
                      Item("code_frequency", PyList(<< >>))>>),
             PyDict(<<Item("name", PyS("widgets")),
                      Item("full_name", PyS("acme/widgets")),
                      Item("forks", PyI(0)), Item("stars", PyI(0)),
                      Item("watchers", PyI(0)), Item("open_issues", PyI(1)),
                      Item("network_count", PyI(0)),
                      Item("subscribers_count", PyI(0)),
                      Item("size", PyI(1)),
                      Item("open_pull_requests", PyI(1)),
                      Item("commit_activity", PyS("Stats unavailable")),
                      Item("code_frequency", PyS("Stats unavailable"))>>)}
      [] name = "create_pull_request_review" ->
            {ReviewResult(ev, body) : ev \in PRReviewEvents,
                                      body \in ReviewBodies}
      [] name = "create_pull_request_review_comment" ->
            {ReviewCommentResult}
      [] name = "approve_pull_request" ->
            {ApprovePullRequestResult}
      [] OTHER -> {}

\* the tools of src/tools/github_tools.py, each with its execute method
ExecutorNames ==
    {"get_pull_request", "get_pull_request_files", "get_pull_request_diff",
     "add_pull_request_comment", "add_issue_comment",
     "list_pull_request_comments", "create_pull_request_review",
     "create_pull_request_review_comment", "update_or_create_pr_comment",
     "update_or_create_issue_comment", "get_repository", "get_issue",
     "get_repository_file_content", "get_repository_stats"}

\* repr of every value an executor returns, worked out once
ResultReprs ==
    [x \in UNION {ExecutorResults(name) :
                     name \in ExecutorNames \cup {"approve_pull_request"}}
        |-> PyRepr(x)]

\* str(tool_result): a str is itself, any other value is its repr
PyStr(x) ==
    IF x.t = "str" THEN x.s
    ELSE IF x \in DOMAIN ResultReprs THEN ResultReprs[x]
    ELSE PyRepr(x)

\* the parameters an executor reads with parameters[key], in the order in
\* which execute reads them
RequiredParameters(name) ==
    CASE name \in {"get_repository", "get_repository_stats"} -> <<"repo">>
      [] name \in {"get_pull_request", "get_pull_request_files",
                   "list_pull_request_comments", "approve_pull_request"} ->
            <<"repo", "pr_number">>
      [] name = "get_pull_request_diff" -> <<"repo", "pr_number", "filename">>
      [] name = "add_pull_request_comment" -> <<"repo", "pr_number", "body">>
      [] name = "create_pull_request_review" ->
            <<"repo", "pr_number", "event">>
      [] name = "create_pull_request_review_comment" ->
            <<"repo", "pr_number", "commit_id", "path", "body">>
      [] name = "update_or_create_pr_comment" ->
            <<"repo", "pr_number", "header_marker", "body">>
      [] name = "get_issue" -> <<"repo", "issue_number">>
      [] name = "add_issue_comment" -> <<"repo", "issue_number", "body">>
      [] name = "update_or_create_issue_comment" ->
            <<"repo", "issue_number", "header_marker", "body">>
      [] name = "get_repository_file_content" -> <<"repo", "path">>
      [] OTHER -> << >>

\* position of the first parameter execute reads that the call lacks, 0 if
\* it lacks none
FirstMissing(name, keys) ==
    LET req == RequiredParameters(name)
        miss == {i \in 1..Len(req) : req[i] \notin keys} IN
    IF miss = {} THEN 0 ELSE CHOOSE i \in miss : \A j \in miss : i <= j

\* str(KeyError(key))
KeyErrorText(key) == "'" \o key \o "'"

\* argument payloads of the ToolCalls the model sends here
RepoArgs == "{\"repo\": \"acme/widgets\"}"

IssueArgs == "{\"repo\": \"acme/widgets\", \"issue_number\": 42}"

PullArgs == "{\"repo\": \"acme/widgets\", \"pr_number\": 42}"

EmptyArgs == "{}"

TruncatedArgs == "{"

\* variant: every payload is taken as parsed
JsonLoadsOkAlways(s) == TRUE

\* json.loads on the payloads above: does it parse
JsonLoadsOk(s) == s \in {RepoArgs, IssueArgs, PullArgs, EmptyArgs}

\* the keys of the dict json.loads returns for them
JsonKeys(s) ==
    CASE s = RepoArgs -> {"repo"}
      [] s = IssueArgs -> {"repo", "issue_number"}
      [] s = PullArgs -> {"repo", "pr_number"}
      [] OTHER -> {}

\* str(e) of the json.JSONDecodeError raised for the truncated payload
JsonLoadsError(s) ==
    "Expecting property name enclosed in double quotes: line 1 column 2 (char 1)"

\* the executor can return: every parameter it reads is there
ExecutorCanReturn(name, arguments) ==
    FirstMissing(name, JsonKeys(arguments)) = 0

\* str(e) of what the executor can raise: a failure of the GitHub call, or
\* the KeyError of the first parameter it reads and does not find (the
\* GitHub calls made before that read can fail as well)
ExecutorFailures(name, arguments) ==
    LET m == FirstMissing(name, JsonKeys(arguments)) IN
    IF m = 0 THEN ToolFailures
    ELSE {KeyErrorText(RequiredParameters(name)[m])}
         \cup (IF m > 1 THEN ToolFailures ELSE {})

\* one ToolCall object of a model response
ToolCall(id, name, arguments) ==
    [id |-> id, type |-> "function",
     function |-> [name |-> name, arguments |-> arguments]]

\* the ToolCalls the model backend sends here: one for a tool every agent
\* registers, one for a tool only the issue agent registers, one whose
\* argument payload is not JSON
ToolCallValues ==
    {ToolCall("call1", "get_repository", RepoArgs),
     ToolCall("call2", "get_issue", IssueArgs),
     ToolCall("call3", "get_repository", TruncatedArgs)}

\* the tool_calls lists a model response may carry (None and [] are both << >>)
ToolCallLists ==
    UNION {[1..n -> ToolCallValues] : n \in 0..MaxToolCalls}

-----------------------------------------------------------------------------
(* process_message, piece by piece.                                         *)

\* variant: the budget test lets one more iteration through
LimitReachedLate(count, ceiling) == count > ceiling

\* variant: the budget test stops one iteration early
LimitReachedEarly(count, ceiling) == count + 1 >= ceiling

\* `if iteration_count >= max_iterations`
LimitReached(count, ceiling) == count >= ceiling

\* truthiness of assistant_message.tool_calls
HasToolCalls(tcs) == Len(tcs) > 0

\* assistant_dict
AssistantDict(content, tcs) ==
    IF HasToolCalls(tcs)
    THEN [role |-> "assistant", content |-> content,
          tool_calls |-> [i \in 1..Len(tcs) |->
              [id |-> tcs[i].id, type |-> tcs[i].type,
               function |-> [name |-> tcs[i].function.name,
                             arguments |-> tcs[i].function.arguments]]]]
    ELSE [role |-> "assistant", content |-> content]

\* variant: the tool message is tagged with the tool name instead of the call id
ToolMessageByName(tc, tool_result) ==
    [role |-> "tool", tool_call_id |-> tc.function.name,
     name |-> tc.function.name,
     content |-> PyStr(tool_result)]

\* variant: the tool message gets an id the orchestrator makes up
ToolMessageFreshId(tc, tool_result) ==
    [role |-> "tool", tool_call_id |-> "call0", name |-> tc.function.name,
     content |-> PyStr(tool_result)]

\* the tool-role message appended for one resolved ToolCall
ToolMessage(tc, tool_result) ==
    [role |-> "tool", tool_call_id |-> tc.id, name |-> tc.function.name,
     content |-> PyStr(tool_result)]

\* variant: any requested name is taken as found
ToolFoundAlways(advertised, impls, name) == TRUE

\* execute_tool: is the name among the advertised tools and the implementations
ToolFound(advertised, impls, name) ==
    /\ \E i \in 1..Len(advertised) : advertised[i] = name
    /\ \E j \in 1..Len(impls) : impls[j] = name

\* str(e) of the ValueError raised by execute_tool
NotFoundText(name) == "Tool " \o name \o " not found"

\* variant: the limit notice is also appended to the conversation
LimitResultWithNotice(msgs) ==
    [content |-> LimitContent,
     conversation_history |->
        Append(msgs, [role |-> "assistant", content |-> LimitContent]),
     tool_calls |-> << >>]

\* variant: the final result is built before the answer is appended
FinalResultStale(content, msgs) ==
    [content |-> content,
     conversation_history |-> SubSeq(msgs, 1, Len(msgs) - 1)]

\* the three dicts process_message returns
LimitResult(msgs) ==
    [content |-> LimitContent, conversation_history |-> msgs, tool_calls |-> << >>]

ErrorResult(e, msgs) ==
    [content |-> "Error: " \o e, conversation_history |-> msgs, tool_calls |-> << >>]

FinalResult(content, msgs) ==
    [content |-> content, conversation_history |-> msgs]

\* the same dicts as process_message of src/github_agent.py returns them:
\* without the "tool_calls" key
WithoutToolCalls(r) == [k \in DOMAIN r \ {"tool_calls"} |-> r[k]]

ResultDict(gen, r) == IF gen = "legacy" THEN WithoutToolCalls(r) ELSE r

\* variant: the for-loop never hands control back to the while-loop
AfterToolCallNeverLeaves(i, n) == "dispatching"

\* variant: the while-loop resumes after the first resolved call of a turn
AfterToolCallEarly(i, n) == "loop"

\* variant: the budget is tested between the ToolCalls of a turn as well
AfterToolCallChecksBudget(i, n) ==
    IF iteration_count >= max_iterations \/ i >= n THEN "loop"
                                                  ELSE "dispatching"

\* where the for-loop over tool_calls goes after resolving call number i of n
AfterToolCall(i, n) == IF i >= n THEN "loop" ELSE "dispatching"

-----------------------------------------------------------------------------
(* State machine.                                                           *)

NoResult == [content |-> None, conversation_history |-> << >>]

\* the process has not exited
NoExit == 2

\* no structured answer is being built
NoValidation == [schema |-> None, given |-> {}, state |-> "none",
                 record |-> [f \in {} |-> None]]

\* no _match_files call is modelled
NoMatching == [state |-> "none", files |-> << >>, include_patterns |-> {},
               exclude_patterns |-> {}, max_files |-> 0, result |-> << >>]

\* no concurrent invocations, no list objects, no concurrent runs
NoRacers == << >>

NoHeap == << >>

NoRuns == << >>

\* no tool name has been handed to a dispatcher
NoLookup == [name |-> None, found |-> FALSE]

\* nothing but comments has been written to the repository
NoWrites == [issues |-> << >>, labels |-> {}, reviews |-> << >>,
             review_comments |-> << >>]

\* what the rest of the program is while one part of it is studied alone
Elsewhere ==
    /\ matching = NoMatching
    /\ racers = NoRacers
    /\ heap = NoHeap
    /\ runs = NoRuns
    /\ lookup = NoLookup

\* no driver around the run: process_message is called directly
NoDriver ==
    /\ generation = "agent"
    /\ event = [number |-> [present |-> FALSE, value |-> 0], full_name |-> None]
    /\ drv_pc = "idle"
    /\ drv_outcome = "none"
    /\ drv_error = None
    /\ orchestrator_runs = 0
    /\ drv_dispatches = 0
    /\ comments = << >>
    /\ next_id = 1
    /\ listed = << >>
    /\ uoc_args = [header_marker |-> "", body |-> ""]
    /\ uoc_result = [action |-> "none", id |-> 0]
    /\ published = << >>
    /\ runs_done = 0
    /\ exit_code = NoExit
    /\ completed_logged = FALSE
    /\ max_turns = 0
    /\ sdk_turns = 0
    /\ approvals = 0
    /\ github = NoWrites
    /\ validation = NoValidation
    /\ approved = FALSE
    /\ Elsewhere

Init ==
    /\ NoDriver
    /\ action_type \in ActionTypes
    /\ auto_approve_env \in AutoApproveValues
    /\ custom_prompt \in CustomPrompts
    /\ tool_implementations = RegisterTools(action_type, auto_approve_env)
    /\ tools = AdvertisedTools(tool_implementations)
    /\ message \in UserMessages
    /\ context \in Contexts
    /\ conversation_history \in Histories
    /\ max_iterations \in Ceilings
    /\ messages = SeedMessages(custom_prompt, context, conversation_history, message)
    /\ iteration_count = 0
    /\ pc = "loop"
    /\ tool_calls = << >>
    /\ idx = 0
    /\ result = NoResult
    /\ model_calls = 0
    /\ sent = << >>
    /\ executed = << >>
    /\ outcome = "running"
    /\ failure = None
    /\ turns = << >>

\* variant: the except clause logs and lets the while-loop go round again
CaughtRetries(e, how) ==
    /\ result' = result
    /\ outcome' = how
    /\ failure' = e
    /\ pc' = "loop"

\* `except Exception as e`: the run returns the error dict
Caught(e, how) ==
    /\ result' = ResultDict(generation, ErrorResult(e, messages))
    /\ outcome' = how
    /\ failure' = e
    /\ pc' = "returned"

\* top of the loop with the budget used up: return the limit notice
CheckLimit ==
    /\ pc = "loop"
    /\ LimitReached(iteration_count, max_iterations)
    /\ result' = ResultDict(generation, LimitResult(messages))
    /\ outcome' = "limit"
    /\ pc' = "returned"
    /\ UNCHANGED <<config, messages, iteration_count, tool_calls, idx,
                   model_calls, sent, executed, failure, turns>>

\* top of the loop with budget left: count the iteration and call the model
CallModel ==
    /\ pc = "loop"
    /\ ~LimitReached(iteration_count, max_iterations)
    /\ iteration_count' = iteration_count + 1
    /\ model_calls' = model_calls + 1
    /\ sent' = messages
    /\ pc' = "awaiting_model"
    /\ UNCHANGED <<config, messages, tool_calls, idx, result, executed,
                   outcome, failure, turns>>

\* the model call raises (network or API error)
ModelRaises ==
    /\ pc = "awaiting_model"
    /\ \E e \in ModelFailures : Caught(e, "model_error")
    /\ UNCHANGED <<config, messages, iteration_count, tool_calls, idx,
                   model_calls, sent, executed, turns>>

\* the model answers with ToolCalls: record the turn and start dispatching
ModelRequestsToolsFrom(contents, lists) ==
    /\ pc = "awaiting_model"
    /\ \E content \in contents, tcs \in lists :
        /\ HasToolCalls(tcs)
        /\ messages' = Append(messages, AssistantDict(content, tcs))
        /\ tool_calls' = tcs
        /\ turns' = Append(turns, [content |-> content, tool_calls |-> tcs,
                                   results |-> << >>])
    /\ idx' = 1
    /\ pc' = "dispatching"
    /\ UNCHANGED <<config, iteration_count, result, model_calls, sent,
                   executed, outcome, failure>>

ModelRequestsTools == ModelRequestsToolsFrom(Contents, ToolCallLists)

\* the model answers without ToolCalls: the run is done
ModelAnswersFrom(contents, lists) ==
    /\ pc = "awaiting_model"
    /\ \E content \in contents, tcs \in lists :
        /\ ~HasToolCalls(tcs)
        /\ messages' = Append(messages, AssistantDict(content, tcs))
        /\ tool_calls' = tcs
        /\ turns' = Append(turns, [content |-> content, tool_calls |-> tcs,
                                   results |-> << >>])
        /\ result' = ResultDict(generation, FinalResult(content, messages'))
    /\ outcome' = "done"
    /\ pc' = "returned"
    /\ UNCHANGED <<config, iteration_count, idx, model_calls, sent,
                   executed, failure>>

ModelAnswers == ModelAnswersFrom(Contents, ToolCallLists)

\* json.loads(tool_call.function.arguments) raises
ArgumentsRaise ==
    /\ pc = "dispatching"
    /\ idx \in 1..Len(tool_calls)
    /\ ~JsonLoadsOk(tool_calls[idx].function.arguments)
    /\ Caught(JsonLoadsError(tool_calls[idx].function.arguments), "arguments_error")
    /\ UNCHANGED <<config, messages, iteration_count, tool_calls, idx,
                   model_calls, sent, executed, turns>>

\* execute_tool finds no tool of that name and raises ValueError
ToolNotFound ==
    /\ pc = "dispatching"
    /\ idx \in 1..Len(tool_calls)
    /\ JsonLoadsOk(tool_calls[idx].function.arguments)
    /\ ~ToolFound(tools, tool_implementations, tool_calls[idx].function.name)
    /\ Caught(NotFoundText(tool_calls[idx].function.name), "tool_not_found")
    /\ UNCHANGED <<config, messages, iteration_count, tool_calls, idx,
                   model_calls, sent, executed, turns>>

\* execute_tool finds the tool and calls original_tool.execute(parameters)
InvokeExecutor ==
    /\ pc = "dispatching"
    /\ idx \in 1..Len(tool_calls)
    /\ JsonLoadsOk(tool_calls[idx].function.arguments)
    /\ ToolFound(tools, tool_implementations, tool_calls[idx].function.name)
    /\ executed' = Append(executed, [turn |-> iteration_count, index |-> idx,
                                     call |-> tool_calls[idx]])
    /\ pc' = "tool_running"
    /\ UNCHANGED <<config, messages, iteration_count, tool_calls, idx, result,
                   model_calls, sent, outcome, failure, turns>>

\* the executor returns: append the tool message, go on with the for-loop
ExecutorReturns ==
    /\ pc = "tool_running"
    /\ idx \in 1..Len(tool_calls)
    /\ ExecutorCanReturn(tool_calls[idx].function.name,
                         tool_calls[idx].function.arguments)
    /\ \E r \in ExecutorResults(tool_calls[idx].function.name) :
        /\ messages' = Append(messages, ToolMessage(tool_calls[idx], r))
        /\ turns' = [turns EXCEPT ![Len(turns)].results = Append(@, PyStr(r))]
    /\ idx' = idx + 1
    /\ pc' = AfterToolCall(idx, Len(tool_calls))
    /\ UNCHANGED <<config, iteration_count, tool_calls, result, model_calls,
                   sent, executed, outcome, failure>>

\* the executor raises: the exception reaches the except clause of the loop
ExecutorRaises ==
    /\ pc = "tool_running"
    /\ idx \in 1..Len(tool_calls)
    /\ \E e \in ExecutorFailures(tool_calls[idx].function.name,
                                 tool_calls[idx].function.arguments) :
          Caught(e, "tool_error")
    /\ UNCHANGED <<config, messages, iteration_count, tool_calls, idx,
                   model_calls, sent, executed, turns>>

Next ==
    \/ CheckLimit
    \/ CallModel
    \/ ModelRaises
    \/ ModelRequestsTools
    \/ ModelAnswers
    \/ ArgumentsRaise
    \/ ToolNotFound
    \/ InvokeExecutor
    \/ ExecutorReturns
    \/ ExecutorRaises

Spec == Init /\ [][Next]_vars

\* every model call and every tool call eventually returns or fails
FairSpec == Spec /\ WF_vars(Next)

-----------------------------------------------------------------------------
(* The action drivers and the process around them. The sources hold three  *)
(* generations side by side.                                                *)
(*   "legacy": src/main.py builds the GitHubAgent of src/github_agent.py,   *)
(*             which registers the same eleven tools whatever the action    *)
(*             type, and runs a driver of src/actions on it.                *)
(*   "agent":  a driver of src/actions runs on the GitHubAgent of           *)
(*             src/src/github_agent.py, built either as src/main.py builds  *)
(*             its agent (no action_type, so the common tools only) or      *)
(*             with the action type of the driver.                          *)
(*   "sdk":    the drivers of src/src/actions run the Agents SDK runner;    *)
(*             src/src/main.py would start them, but importing it fails.    *)

agentcfg == <<action_type, auto_approve_env, custom_prompt,
              tool_implementations, tools, message, context,
              conversation_history, max_iterations>>

loopvars == <<messages, iteration_count, pc, tool_calls, idx, result,
              model_calls, sent, executed, outcome, failure, turns>>

Generations == {"legacy", "agent", "sdk"}

\* ACTION_TYPE values main dispatches on
ConfigActionTypes == {"pr-review", "issue-analyze", "code-scan"}

\* an ACTION_TYPE main does not know
UnknownActionTypes == {"deploy"}

\* the drivers of src/actions, which main of src/main.py runs on a
\* GitHubAgent and which return a dict
OnGitHubAgent(gen) == gen \in {"legacy", "agent"}

\* the driver works through execute_tool and process_message of a
\* GitHubAgent: the drivers of src/actions, and CodeScanAction of
\* src/src/actions (the other two of src/src/actions call Runner.run)
RunsGitHubAgent(gen, at) == OnGitHubAgent(gen) \/ at = "code-scan"

\* _register_tools of src/github_agent.py: the same tools for every action
LegacyTools ==
    <<"get_pull_request", "get_pull_request_files", "get_pull_request_diff",
      "add_pull_request_comment", "list_pull_request_comments",
      "update_or_create_pr_comment", "get_repository", "get_issue",
      "add_issue_comment", "get_repository_file_content",
      "get_repository_stats">>

\* event.get(<kind>, {}).get("number"): absent, 0 or a real number
EventNumbers ==
    {[present |-> FALSE, value |-> 0],
     [present |-> TRUE, value |-> 0],
     [present |-> TRUE, value |-> 42]}

\* event.get("repository", {}).get("full_name"): absent, empty or a real name
EventNames == {None, "", "acme/widgets"}

Events == [number : EventNumbers, full_name : EventNames]

\* comments the pull request or issue carries before the first run
InitialComments == {<< >>, <<[id |-> 1, body |-> "Thanks for the patch"]>>}

\* variant: only the number is required
MissingInfoNumberOnly(at, ev) ==
    at # "code-scan" /\ (~ev.number.present \/ ev.number.value = 0)

\* `if not pr_number or not repo_name` (and the issue twin); the code scan
\* tests `if not repo_name` alone
MissingInfo(at, ev) ==
    \/ at # "code-scan" /\ (~ev.number.present \/ ev.number.value = 0)
    \/ ev.full_name = None \/ ev.full_name = ""

\* summary of the dict the src/actions drivers return for such an event
MissingInfoSummary(at) ==
    CASE at = "pr-review" ->
            "Error: Could not extract PR information from GitHub event"
      [] at = "issue-analyze" ->
            "Error: Could not extract issue information from GitHub event"
      [] OTHER ->
            "Error: Could not extract repository information from GitHub event"

\* message of the ValueError the src/src/actions drivers raise for it
MissingInfoValueError(at) ==
    CASE at = "pr-review" ->
            "Missing required PR information in GitHub event"
      [] at = "issue-analyze" ->
            "Missing required issue information in GitHub event"
      [] OTHER ->
            "Missing required repository information in GitHub event"

\* summary of the dict the outer `except Exception` of a driver returns
DriverErrorSummary(at, e) ==
    IF at = "pr-review" THEN "Error reviewing PR: " \o e ELSE "Error: " \o e

\* the execute_tool calls a driver makes first, one after the other (the
\* third of the code scan is the one _get_files_to_scan makes)
PrefetchTools(at) ==
    CASE at = "pr-review" -> <<"get_pull_request", "get_pull_request_files">>
      [] at = "issue-analyze" -> <<"get_issue", "get_repository">>
      [] OTHER -> <<"get_repository", "get_repository_stats", "get_repository">>

\* str() of the numbers events carry here
NumStr(n) == IF n = 42 THEN "42" ELSE "0"

\* the context string a driver passes to process_message
DriverContext(at, ev) ==
    CASE at = "pr-review" ->
            "Pull request review for " \o ev.full_name \o "#"
                \o NumStr(ev.number.value)
      [] at = "issue-analyze" ->
            "Issue analysis for " \o ev.full_name \o "#"
                \o NumStr(ev.number.value)
      [] OTHER -> "Code scan for " \o ev.full_name

\* the opening line of the message a driver passes to process_message
DriverMessage(at) ==
    CASE at = "pr-review" -> "Please review this pull request:"
      [] at = "issue-analyze" -> "Please analyze this GitHub issue:"
      [] OTHER ->
            "Please perform a security and best practices scan on this repository:"

\* process_message(message, context): max_iterations keeps its default
DefaultMaxIterations == 10

\* MAX_TURNS = int(os.environ.get("MAX_TURNS", 30)), variable unset
MAX_TURNS == 30

\* MAX_TURNS in a process: the variable of the environment set to 3, or unset
MaxTurnsSettings == {3, MAX_TURNS}

\* the header a driver puts before the answer it publishes
CommentHeader(at) ==
    IF at = "pr-review" THEN "## AI Code Review\n\n"
                        ELSE "## AI Issue Analysis\n\n"

\* a value inside an f-string: None is rendered as the text None
FormatValue(c) == IF c = None THEN "None" ELSE c

\* variant: the answer is published without the header
PublishBodyNoHeader(at, response) == FormatValue(response.content)

\* f"{comment_header}{response['content']}"
PublishBody(at, response) ==
    CommentHeader(at) \o FormatValue(response.content)

\* response.get("tool_calls", [])
ResponseToolCalls(response) ==
    IF "tool_calls" \in DOMAIN response THEN response.tool_calls ELSE << >>

\* should_approve: a tool call named approve_pull_request is in the response
ShouldApprove(response) ==
    \E i \in 1..Len(ResponseToolCalls(response)) :
        ResponseToolCalls(response)[i].name = "approve_pull_request"

\* tools=[...] of create_pr_review_agent. get_repository is imported from
\* src.tools.github_function_tools, which defines no function of that name
\* (see ImportFailures); the list is what the agent holds once the name
\* exists
PRReviewTools ==
    <<"get_repository", "get_repository_file_content",
      "get_repository_stats", "get_pull_request", "get_pull_request_files",
      "create_pull_request_review">>

\* tools=[...] of create_issue_analyze_agent
IssueAnalyzeTools ==
    <<"get_repository_info", "get_repository_file_content",
      "get_repository_stats", "get_issue", "list_issue_comments",
      "add_labels_to_issue", "add_issue_comment", "list_issue_labels",
      "search_code", "list_repository_files">>

\* self.agent of PRReviewAction and IssueAnalyzeAction of src/src/actions
SdkTools(at) ==
    CASE at = "pr-review" -> PRReviewTools
      [] at = "issue-analyze" -> IssueAnalyzeTools
      [] OTHER -> << >>

\* directories the sources are installed under
InstallRoots == {"/app"}

\* str(e) of the ImportError of src.github_agents.pr_review_agent: the
\* message names the module and, in parentheses, the file it was loaded from
ImportErrorText(root) ==
    "cannot import name 'get_repository' from 'src.tools.github_function_tools'"
    \o " (" \o root \o "/src/tools/github_function_tools.py)"

\* str(e) of the ModuleNotFoundError of `from src.tools.github_tools import`
\* in src/src/github_agent.py: src/src/tools holds no github_tools module
ModuleNotFoundText == "No module named 'src.tools.github_tools'"

\* what stops the process before a driver of src/src/actions is built.
\* Started through src/src/main.py, the first import of main
\* (src.actions.code_scan, which imports src.github_agent) raises the
\* ModuleNotFoundError for every action type. A caller that imports the
\* module of one driver from the files as they are meets the same error
\* for the code scan, the ImportError of get_repository for the PR review,
\* none for the issue analysis. The drivers themselves are modelled as
\* they run once their caller has these names in place.
ImportFailures(at) ==
    {ModuleNotFoundText}
    \cup (IF at = "pr-review"
          THEN {ImportErrorText(root) : root \in InstallRoots} ELSE {})

\* the tool lists the agent of a run can have: the GitHubAgent of
\* src/github_agent.py, the GitHubAgent of src/src/github_agent.py built
\* without or with the action type, the agent a runner driver builds
AgentTools(gen, at, env) ==
    CASE gen = "legacy" -> {LegacyTools}
      [] gen = "agent" \/ at = "code-scan" ->
            {RegisterTools(None, env), RegisterTools(at, env)}
      [] OTHER -> {SdkTools(at)}

\* str(e) of the OSError of open(GITHUB_OUTPUT, "a") on a path that cannot
\* be written
OutputFailures == {"[Errno 13] Permission denied: '/github/output'"}

\* Runner.run of the agents library, which is no code of this repository:
\* the runner starts another turn only below the max_turns it was given
TurnAllowed(taken, ceiling) == taken < ceiling

\* str(e) of the exception the runner raises when the turns are used up
MaxTurnsExceededText(ceiling) ==
    "Max turns (" \o ToString(ceiling) \o ") exceeded"

\* what the model asks of the agent the drivers run: an answer, a call of a
\* registered tool, a call whose payload is not JSON, a call of the approval
\* tool
DriverToolCallLists ==
    {<< >>,
     <<ToolCall("call1", "get_repository", RepoArgs)>>,
     <<ToolCall("call3", "get_repository", TruncatedArgs)>>,
     <<ToolCall("call4", "approve_pull_request", PullArgs)>>}

-----------------------------------------------------------------------------
(* update-or-create comment, pull-request and issue variants alike.         *)

\* variant: the last comment that starts with the marker is taken
FirstMatchLast(cs, marker) ==
    IF \E i \in 1..Len(cs) : StartsWith(cs[i].body, marker)
    THEN CHOOSE i \in 1..Len(cs) :
            /\ StartsWith(cs[i].body, marker)
            /\ \A j \in (i + 1)..Len(cs) : ~StartsWith(cs[j].body, marker)
    ELSE 0

\* `for comment in comments: if comment.body.startswith(header_marker)`:
\* index of the comment the loop stops at, 0 if it runs to its end
FirstMatch(cs, marker) ==
    IF \E i \in 1..Len(cs) : StartsWith(cs[i].body, marker)
    THEN CHOOSE i \in 1..Len(cs) :
            /\ StartsWith(cs[i].body, marker)
            /\ \A j \in 1..(i - 1) : ~StartsWith(cs[j].body, marker)
    ELSE 0

\* comment.edit(body) on the comment with this id
EditComment(cs, id, body) ==
    [i \in 1..Len(cs) |->
        IF cs[i].id = id THEN [id |-> id, body |-> body] ELSE cs[i]]

\* pr.create_issue_comment(body) / issue.create_comment(body)
CreateComment(cs, id, body) == Append(cs, [id |-> id, body |-> body])

\* the tool is entered: comments = list(pr.get_issue_comments())
UocList(marker, body, after) ==
    /\ listed' = comments
    /\ uoc_args' = [header_marker |-> marker, body |-> body]
    /\ uoc_result' = [action |-> "none", id |-> 0]
    /\ drv_pc' = after

\* a listed comment starts with the marker: edit it, return "updated"
UocEdit(after) ==
    /\ FirstMatch(listed, uoc_args.header_marker) # 0
    /\ LET c == listed[FirstMatch(listed, uoc_args.header_marker)] IN
        /\ comments' = EditComment(comments, c.id, uoc_args.body)
        /\ uoc_result' = [action |-> "updated", id |-> c.id]
    /\ published' = Append(published, uoc_args.body)
    /\ drv_pc' = after
    /\ UNCHANGED next_id

\* no listed comment starts with the marker: create one, return "created"
UocCreate(after) ==
    /\ FirstMatch(listed, uoc_args.header_marker) = 0
    /\ comments' = CreateComment(comments, next_id, uoc_args.body)
    /\ next_id' = next_id + 1
    /\ uoc_result' = [action |-> "created", id |-> next_id]
    /\ published' = Append(published, uoc_args.body)
    /\ drv_pc' = after

-----------------------------------------------------------------------------
(* Which files a driver looks at: _match_files of the PR review and         *)
(* _get_files_to_scan of the code scan.                                     *)

\* bound: files a pull request carries
MaxFileCount == 3

\* bound: largest MAX_FILES
MaxLimit == 2

\* file records as get_pull_request_files returns them; one lacks 'changes'
PRFiles ==
    {[filename |-> "a.py", changes |-> 2],
     [filename |-> "b.py", changes |-> 2],
     [filename |-> "t.md", changes |-> 5],
     [filename |-> "c.js"]}

\* glob patterns of INCLUDE_PATTERNS and EXCLUDE_PATTERNS
Patterns == {"*.py", "?.md", "a*"}

\* the files of one pull request: every filename once
FileLists ==
    UNION {{s \in [1..n -> PRFiles] :
                \A i, j \in 1..n : i # j => s[i] # s[j]} : n \in 0..MaxFileCount}

\* int(os.environ.get("MAX_FILES", 10)), as a count
MaxFilesValues == 0..MaxLimit

\* file.get("filename", "")
FilenameOf(f) == IF "filename" \in DOMAIN f THEN f.filename ELSE ""

\* f.get("changes", 0)
ChangesOf(f) == IF "changes" \in DOMAIN f THEN f.changes ELSE 0

\* fnmatch.fnmatch(name, pat) for patterns of literals, '*' and '?'
RECURSIVE Fnmatch(_, _)
Fnmatch(name, pat) ==
    IF pat = "" THEN name = ""
    ELSE LET p == SubSeq(pat, 1, 1)
             rest == SubSeq(pat, 2, Len(pat))
             shorter == SubSeq(name, 2, Len(name))
         IN  IF p = "*"
             THEN Fnmatch(name, rest) \/ (name # "" /\ Fnmatch(shorter, pat))
             ELSE IF p = "?"
             THEN name # "" /\ Fnmatch(shorter, rest)
             ELSE name # "" /\ SubSeq(name, 1, 1) = p /\ Fnmatch(shorter, rest)

\* variant: an include match is looked at before the exclude patterns
KeptIncludeFirst(f, inc, exc) ==
    \/ inc # {} /\ \E p \in inc : Fnmatch(FilenameOf(f), p)
    \/ inc = {} /\ ~(\E p \in exc : Fnmatch(FilenameOf(f), p))

\* the first pass of _match_files on one file: excluded, else included
Kept(f, inc, exc) ==
    IF exc # {} /\ \E p \in exc : Fnmatch(FilenameOf(f), p)
    THEN FALSE
    ELSE inc = {} \/ \E p \in inc : Fnmatch(FilenameOf(f), p)

\* matched_files after the loop over files
FirstPass(files, inc, exc) ==
    LET Test(f) == Kept(f, inc, exc) IN SelectSeq(files, Test)

\* one step of the stable sort: f goes behind every file with as many changes
RECURSIVE InsertByChanges(_, _)
InsertByChanges(sorted, f) ==
    IF sorted = << >> THEN <<f>>
    ELSE IF ChangesOf(Head(sorted)) >= ChangesOf(f)
         THEN <<Head(sorted)>> \o InsertByChanges(Tail(sorted), f)
         ELSE <<f>> \o sorted

\* matched_files.sort(key=changes, reverse=True): stable, most changes first
RECURSIVE SortByChanges(_)
SortByChanges(s) ==
    IF s = << >> THEN << >>
    ELSE InsertByChanges(SortByChanges(SubSeq(s, 1, Len(s) - 1)), s[Len(s)])

\* s[:n] for n >= 0
Take(s, n) == SubSeq(s, 1, IF n < Len(s) THEN n ELSE Len(s))

\* _match_files(files)
MatchFiles(files, inc, exc, max_files) ==
    IF inc = {} /\ exc = {}
    THEN Take(files, max_files)
    ELSE LET matched_files == SortByChanges(FirstPass(files, inc, exc))
         IN  IF Len(matched_files) > max_files
             THEN Take(matched_files, max_files)
             ELSE matched_files

\* int(os.environ.get("MAX_FILES", 10)), variable unset
DefaultMaxFiles == 10

\* the pull requests the PR review is run on here: no file, one, two
DriverFileLists ==
    {<< >>,
     <<[filename |-> "a.py", changes |-> 2]>>,
     <<[filename |-> "a.py", changes |-> 2],
       [filename |-> "t.md", changes |-> 5]>>}

\* the default include patterns of the code scan
DefaultIncludePatterns ==
    <<"*.py", "*.js", "*.ts", "*.jsx", "*.tsx", "*.java", "*.cpp", "*.c",
      "*.h", "*.go", "*.rb", "*.php", "*.sh">>

\* INCLUDE_PATTERNS of the code scans run here: unset, or one pattern
ScanIncludePatterns == {<< >>, <<"*.go">>}

\* `sub in s` for a non-empty sub
InStr(sub, s) ==
    \E i \in 1..Len(s) :
        /\ i + Len(sub) - 1 <= Len(s)
        /\ SubSeq(s, i, i + Len(sub) - 1) = sub

\* the placeholder files _get_files_to_scan adds for one pattern
PlaceholderFiles(pattern) ==
    IF InStr("*.py", pattern)
    THEN <<"src/main.py", "src/utils.py", "tests/test_main.py">>
    ELSE IF InStr("*.js", pattern)
    THEN <<"src/index.js", "src/components/app.js">>
    ELSE IF InStr("*.go", pattern) THEN <<"main.go">>
    ELSE << >>

\* files_to_scan after the loop over the include patterns
RECURSIVE PlaceholdersOf(_)
PlaceholdersOf(patterns) ==
    IF patterns = << >> THEN << >>
    ELSE PlaceholderFiles(Head(patterns)) \o PlaceholdersOf(Tail(patterns))

\* _get_files_to_scan, after its get_repository call
FilesToScan(inc, exc, max_files) ==
    LET patterns == IF inc = << >> THEN DefaultIncludePatterns ELSE inc
        NotExcluded(f) == ~(\E p \in exc : Fnmatch(f, p))
        left == IF exc = {} THEN PlaceholdersOf(patterns)
                ELSE SelectSeq(PlaceholdersOf(patterns), NotExcluded)
    IN  Take(left, max_files)

\* the file selection a run starts with: the files of the pull request, or
\* the patterns of the code scan, and nothing selected yet
DriverMatchings(gen, at) ==
    IF ~RunsGitHubAgent(gen, at) THEN {NoMatching}
    ELSE IF at = "pr-review"
    THEN {[state |-> "pending", files |-> files, include_patterns |-> {},
           exclude_patterns |-> {}, max_files |-> DefaultMaxFiles,
           result |-> << >>] : files \in DriverFileLists}
    ELSE IF at = "code-scan"
    THEN {[state |-> "pending", files |-> << >>, include_patterns |-> inc,
           exclude_patterns |-> {}, max_files |-> DefaultMaxFiles,
           result |-> << >>] : inc \in ScanIncludePatterns}
    ELSE {NoMatching}

-----------------------------------------------------------------------------
(* What the writing tools leave on GitHub.                                  *)

\* most writes to one pull request or issue, and most calls of one tool in a
\* row
MaxCalls == 2

\* what a dispatched tool is called with here
DispatchBodies == {"Triage: looks like a bug", "## AI Code Review\n\nLGTM"}

DispatchMarkers == {"## AI Code Review\n\n"}

DispatchTitles == {"Hardcoded secret"}

DispatchLabels == {"bug"}

\* paths a review comment is asked for: a file of the pull request, and one
\* that is not
ReviewPaths == {"a.py", "zz.py"}

PullRequestPaths == {"a.py"}

\* str(e) of the ValueError of CreatePullRequestReviewCommentTool.execute
PathNotFoundText(path) ==
    "Path '" \o path \o "' not found in the pull request files"

\* comments, reviews, review comments and issues written so far
Written ==
    Len(comments) + Len(github.reviews) + Len(github.review_comments)
    + Len(github.issues)

\* pr.create_issue_comment(body) / issue.create_comment(body) of the tools
\* that add a comment
AddComment(body) ==
    /\ Written < MaxCalls
    /\ comments' = CreateComment(comments, next_id, body)
    /\ next_id' = next_id + 1
    /\ UNCHANGED <<uoc_result, approvals, github>>

\* update-or-create from its listing to its return
UpdateOrCreate(marker, body) ==
    /\ LET i == FirstMatch(comments, marker) IN
        IF i # 0
        THEN /\ comments' = EditComment(comments, comments[i].id, body)
             /\ next_id' = next_id
             /\ uoc_result' = [action |-> "updated", id |-> comments[i].id]
        ELSE /\ Written < MaxCalls
             /\ comments' = CreateComment(comments, next_id, body)
             /\ next_id' = next_id + 1
             /\ uoc_result' = [action |-> "created", id |-> next_id]
    /\ UNCHANGED <<approvals, github>>

\* pr.create_review(event=..., body=...)
SubmitReview(ev, body) ==
    /\ github' = [github EXCEPT
                    !.reviews = Append(@, [event |-> ev, body |-> body])]
    /\ approvals' = IF ev = "APPROVE" THEN approvals + 1 ELSE approvals
    /\ UNCHANGED <<comments, next_id, uoc_result>>

\* repo.create_issue(title=..., body=..., labels=...)
CreateIssue(title) ==
    /\ Written < MaxCalls
    /\ github' = [github EXCEPT !.issues = Append(@, title)]
    /\ UNCHANGED <<comments, next_id, uoc_result, approvals>>

\* issue.add_to_labels(*labels)
AddLabels(labels) ==
    /\ github' = [github EXCEPT !.labels = @ \cup labels]
    /\ UNCHANGED <<comments, next_id, uoc_result, approvals>>

\* what running a tool of GitHubAgent writes to the repository: the tools
\* of src/tools/github_tools.py that a GitHubAgent registers, and the
\* approval tool (which submits an approving review)
ExecuteWrites(name) ==
    CASE name \in {"add_pull_request_comment", "add_issue_comment"} ->
            \E body \in DispatchBodies : AddComment(body)
      [] name \in {"update_or_create_pr_comment",
                   "update_or_create_issue_comment"} ->
            \E marker \in DispatchMarkers, body \in DispatchBodies :
                UpdateOrCreate(marker, body)
      [] name = "approve_pull_request" ->
            /\ Written < MaxCalls
            /\ SubmitReview("APPROVE", "Approved after review")
      [] OTHER ->
            UNCHANGED <<comments, next_id, uoc_result, approvals, github>>

\* what invoking a function tool of src/src/tools/github_function_tools.py
\* writes to the repository
InvokeWrites(name) ==
    CASE name = "add_issue_comment" ->
            \E body \in DispatchBodies : AddComment(body)
      [] name \in {"update_or_create_pr_comment",
                   "update_or_create_issue_comment"} ->
            \E marker \in DispatchMarkers, body \in DispatchBodies :
                UpdateOrCreate(marker, body)
      [] name = "create_pull_request_review" ->
            /\ Written < MaxCalls
            /\ \E ev \in PRReviewEvents, body \in DispatchBodies :
                  SubmitReview(ev, body)
      [] name = "create_issue" ->
            \E title \in DispatchTitles : CreateIssue(title)
      [] name = "add_labels_to_issue" -> AddLabels(DispatchLabels)
      [] OTHER ->
            UNCHANGED <<comments, next_id, uoc_result, approvals, github>>

-----------------------------------------------------------------------------
(* The drivers, step by step.                                               *)

\* a process is started for an event: the agent is built, then the driver
DriverInit(gens, ats, envs, evs, cmts) ==
    /\ generation \in gens
    /\ action_type \in ats
    /\ auto_approve_env \in envs
    /\ custom_prompt \in CustomPrompts
    /\ tool_implementations
          \in AgentTools(generation, action_type, auto_approve_env)
    /\ tools = AdvertisedTools(tool_implementations)
    /\ message = None
    /\ context = None
    /\ conversation_history = << >>
    /\ max_iterations = DefaultMaxIterations
    /\ messages = << >>
    /\ iteration_count = 0
    /\ pc = "not_started"
    /\ tool_calls = << >>
    /\ idx = 0
    /\ result = NoResult
    /\ model_calls = 0
    /\ sent = << >>
    /\ executed = << >>
    /\ outcome = "running"
    /\ failure = None
    /\ turns = << >>
    /\ event \in evs
    /\ drv_pc = "start"
    /\ drv_outcome = "none"
    /\ drv_error = None
    /\ orchestrator_runs = 0
    /\ drv_dispatches = 0
    /\ comments \in cmts
    /\ next_id = Len(comments) + 1
    /\ listed = << >>
    /\ uoc_args = [header_marker |-> "", body |-> ""]
    /\ uoc_result = [action |-> "none", id |-> 0]
    /\ published = << >>
    /\ runs_done = 0
    /\ exit_code = NoExit
    /\ completed_logged = FALSE
    /\ sdk_turns = 0
    /\ approvals = 0
    /\ github = NoWrites
    /\ validation = NoValidation
    /\ approved = FALSE

ActionInit ==
    /\ DriverInit(Generations, ConfigActionTypes \cup UnknownActionTypes,
                  AutoApproveValues, Events, InitialComments)
    /\ max_turns \in MaxTurnsSettings
    /\ matching \in DriverMatchings(generation, action_type)
    /\ racers = NoRacers
    /\ heap = NoHeap
    /\ runs = NoRuns
    /\ lookup = NoLookup

\* a driver exists for the action type: PRReviewAction, IssueAnalyzeAction
\* and CodeScanAction, in src/actions and in src/src/actions alike
DriverCanRun(gen, at) == at \in ConfigActionTypes

\* the tool the driver is about to call with execute_tool while prefetching
PrefetchTool == PrefetchTools(action_type)[drv_dispatches + 1]

\* the tool the driver publishes with
PublishTool(at) ==
    IF at = "pr-review" THEN "update_or_create_pr_comment"
                        ELSE "add_issue_comment"

\* str(e) of what an execute_tool call of the driver can raise
DispatchFailures(name) ==
    IF ToolFound(tools, tool_implementations, name)
    THEN ToolFailures ELSE {NotFoundText(name)}

\* the outer `except Exception as e` of a src/actions driver
DriverCatches(e) ==
    /\ drv_outcome' = "error_result"
    /\ drv_error' = DriverErrorSummary(action_type, e)
    /\ drv_pc' = "ended"

\* the outer `except Exception as e` of a src/src/actions driver: the
\* error is logged, then `raise`
DriverReraises(e) ==
    /\ drv_outcome' = "raised"
    /\ drv_error' = e
    /\ drv_pc' = "ended"

\* an exception reaches the outer `except` of the driver that is running
DriverExcept(e) ==
    IF OnGitHubAgent(generation) THEN DriverCatches(e) ELSE DriverReraises(e)

\* src/main.py: `else: logger.error("Unknown action type"); sys.exit(1)`
MainRejectsActionType ==
    /\ drv_pc = "start"
    /\ OnGitHubAgent(generation)
    /\ action_type \notin ConfigActionTypes
    /\ exit_code' = 1
    /\ runs_done' = runs_done + 1
    /\ drv_pc' = "exited"
    /\ UNCHANGED <<agentcfg, loopvars, generation, event, drv_outcome,
                   drv_error, orchestrator_runs, drv_dispatches, comments,
                   next_id, listed, uoc_args, uoc_result, published,
                   completed_logged, max_turns, sdk_turns, approvals, github,
                   validation, approved, matching, racers, heap, runs,
                   lookup>>

\* the process is started through src/src/main.py, or a caller imports the
\* module of a driver: an import raises, the interpreter prints the
\* traceback and exits with 1
ImportFails ==
    /\ drv_pc = "start"
    /\ generation = "sdk"
    /\ drv_outcome' = "import_error"
    /\ drv_error' \in ImportFailures(action_type)
    /\ exit_code' = 1
    /\ runs_done' = runs_done + 1
    /\ drv_pc' = "exited"
    /\ UNCHANGED <<agentcfg, loopvars, generation, event, orchestrator_runs,
                   drv_dispatches, comments, next_id, listed, uoc_args,
                   uoc_result, published, completed_logged, max_turns,
                   sdk_turns, approvals, github, validation, approved, matching,
                   racers, heap, runs, lookup>>

\* the event lacks an identifier: return the error dict, or raise ValueError
DriverRejectsEvent ==
    /\ drv_pc = "start"
    /\ DriverCanRun(generation, action_type)
    /\ MissingInfo(action_type, event)
    /\ drv_outcome' = IF OnGitHubAgent(generation) THEN "error_result"
                                                   ELSE "raised"
    /\ drv_error' = IF OnGitHubAgent(generation)
                    THEN MissingInfoSummary(action_type)
                    ELSE MissingInfoValueError(action_type)
    /\ drv_pc' = "ended"
    /\ UNCHANGED <<agentcfg, loopvars, generation, event, orchestrator_runs,
                   drv_dispatches, comments, next_id, listed, uoc_args,
                   uoc_result, published, runs_done, exit_code,
                   completed_logged, max_turns, sdk_turns, approvals, github,
                   validation, approved, matching, racers, heap, runs,
                   lookup>>

\* the event carries the identifiers the driver needs
DriverAcceptsEvent ==
    /\ drv_pc = "start"
    /\ DriverCanRun(generation, action_type)
    /\ ~MissingInfo(action_type, event)
    /\ drv_pc' = IF RunsGitHubAgent(generation, action_type)
                 THEN "prefetch" ELSE "invoke"
    /\ UNCHANGED <<agentcfg, loopvars, generation, event, drv_outcome,
                   drv_error, orchestrator_runs, drv_dispatches, comments,
                   next_id, listed, uoc_args, uoc_result, published,
                   runs_done, exit_code, completed_logged, max_turns,
                   sdk_turns, approvals, github, validation, approved, matching,
                   racers, heap, runs, lookup>>

\* one of the driver's own execute_tool calls returns
PrefetchReturns ==
    /\ drv_pc = "prefetch"
    /\ ToolFound(tools, tool_implementations, PrefetchTool)
    /\ drv_dispatches' = drv_dispatches + 1
    /\ drv_pc' = IF drv_dispatches + 1 < Len(PrefetchTools(action_type))
                 THEN "prefetch"
                 ELSE IF action_type = "issue-analyze" THEN "invoke"
                                                       ELSE "match_files"
    /\ UNCHANGED <<agentcfg, loopvars, generation, event, drv_outcome,
                   drv_error, orchestrator_runs, comments, next_id, listed,
                   uoc_args, uoc_result, published, runs_done, exit_code,
                   completed_logged, max_turns, sdk_turns, approvals, github,
                   validation, approved, matching, racers, heap, runs,
                   lookup>>

\* one of the driver's own execute_tool calls raises: the agent has no such
\* tool, or the GitHub call fails
PrefetchRaises ==
    /\ drv_pc = "prefetch"
    /\ drv_dispatches' = drv_dispatches + 1
    /\ \E e \in DispatchFailures(PrefetchTool) : DriverExcept(e)
    /\ UNCHANGED <<agentcfg, loopvars, generation, event, orchestrator_runs,
                   comments, next_id, listed, uoc_args, uoc_result,
                   published, runs_done, exit_code, completed_logged,
                   max_turns, sdk_turns, approvals, github, validation, approved,
                   matching, racers, heap, runs, lookup>>

\* matched_files = self._match_files(pr_files) and the test that follows it
MatchReturns(kept) ==
    /\ drv_pc = "match_files"
    /\ action_type = "pr-review"
    /\ matching.state = "pending"
    /\ LET matched_files == MatchFiles(matching.files, matching.include_patterns,
                                       matching.exclude_patterns,
                                       matching.max_files)
       IN  /\ (matched_files # << >>) = kept
           /\ matching' = [matching EXCEPT !.state = "done",
                                           !.result = matched_files]
    /\ drv_pc' = IF kept THEN "diffs" ELSE "ended"
    /\ drv_outcome' = IF kept THEN drv_outcome ELSE "no_files"
    /\ UNCHANGED <<agentcfg, loopvars, generation, event, drv_error,
                   orchestrator_runs, drv_dispatches, comments, next_id,
                   listed, uoc_args, uoc_result, published, runs_done,
                   exit_code, completed_logged, max_turns, sdk_turns,
                   approvals, github, validation, approved, racers, heap, runs,
                   lookup>>

\* no file is left: return "No files to review"
MatchReturnsNothing == MatchReturns(FALSE)

\* files are left: the driver goes on to fetch their diffs
MatchReturnsFiles == MatchReturns(TRUE)

\* `for file in matched_files`: one get_pull_request_diff call per matched
\* file; a failure is caught in place
FetchDiff ==
    /\ drv_pc = "diffs"
    /\ drv_dispatches' = drv_dispatches + 1
    /\ drv_pc' = IF drv_dispatches + 1 - Len(PrefetchTools(action_type))
                        < Len(matching.result)
                 THEN "diffs" ELSE "invoke"
    /\ UNCHANGED <<agentcfg, loopvars, generation, event, drv_outcome,
                   drv_error, orchestrator_runs, comments, next_id, listed,
                   uoc_args, uoc_result, published, runs_done, exit_code,
                   completed_logged, max_turns, sdk_turns, approvals, github,
                   validation, approved, matching, racers, heap, runs,
                   lookup>>

\* the rest of _get_files_to_scan: an empty self.include_patterns is
\* replaced by the defaults, then the files the code scan will read are
\* worked out
FilesListed ==
    /\ drv_pc = "match_files"
    /\ action_type = "code-scan"
    /\ matching.state = "pending"
    /\ LET files_to_scan == FilesToScan(matching.include_patterns,
                                        matching.exclude_patterns,
                                        matching.max_files)
       IN  /\ matching' = [matching EXCEPT
                              !.state = "done",
                              !.include_patterns =
                                  IF matching.include_patterns = << >>
                                  THEN DefaultIncludePatterns
                                  ELSE matching.include_patterns,
                              !.result = files_to_scan]
           /\ drv_pc' = IF files_to_scan = << >> THEN "invoke"
                                                 ELSE "read_files"
    /\ UNCHANGED <<agentcfg, loopvars, generation, event, drv_outcome,
                   drv_error, orchestrator_runs, drv_dispatches, comments,
                   next_id, listed, uoc_args, uoc_result, published,
                   runs_done, exit_code, completed_logged, max_turns,
                   sdk_turns, approvals, github, validation, approved, racers, heap,
                   runs, lookup>>

\* `for file_path in files_to_scan`: one get_repository_file_content call
\* per file; a failure is caught in place
ReadFile ==
    /\ drv_pc = "read_files"
    /\ drv_dispatches' = drv_dispatches + 1
    /\ drv_pc' = IF drv_dispatches + 1 - Len(PrefetchTools(action_type))
                        < Len(matching.result)
                 THEN "read_files" ELSE "invoke"
    /\ UNCHANGED <<agentcfg, loopvars, generation, event, drv_outcome,
                   drv_error, orchestrator_runs, comments, next_id, listed,
                   uoc_args, uoc_result, published, runs_done, exit_code,
                   completed_logged, max_turns, sdk_turns, approvals, github,
                   validation, approved, matching, racers, heap, runs,
                   lookup>>

\* response = self.agent.process_message(message, context)
InvokeOrchestrator ==
    /\ drv_pc = "invoke"
    /\ RunsGitHubAgent(generation, action_type)
    /\ orchestrator_runs' = orchestrator_runs + 1
    /\ message' = DriverMessage(action_type)
    /\ context' = DriverContext(action_type, event)
    /\ max_iterations' = DefaultMaxIterations
    /\ messages' = SeedMessages(custom_prompt, context', << >>, message')
    /\ iteration_count' = 0
    /\ pc' = "loop"
    /\ drv_pc' = "orchestrating"
    /\ UNCHANGED <<action_type, auto_approve_env, custom_prompt,
                   tool_implementations, tools, conversation_history,
                   tool_calls, idx, result, model_calls, sent, executed,
                   outcome, failure, turns>>
    /\ UNCHANGED <<generation, event, drv_outcome, drv_error, drv_dispatches,
                   comments, next_id, listed, uoc_args, uoc_result,
                   published, runs_done, exit_code, completed_logged,
                   max_turns, sdk_turns, approvals, github, validation, approved,
                   matching, racers, heap, runs, lookup>>

\* the model backend, as the driver's agent sees it
DriverModelRequestsTools == ModelRequestsToolsFrom({None}, DriverToolCallLists)

DriverModelAnswers == ModelAnswersFrom(Contents, DriverToolCallLists)

\* process_message has returned its dict to the driver: the PR review and
\* the issue analysis publish it, the code scan of src/actions goes on to
\* read it, the code scan of src/src/actions to file it as an issue
OrchestratorReturns ==
    /\ drv_pc = "orchestrating"
    /\ pc = "returned"
    /\ drv_pc' = CASE action_type # "code-scan" -> "publish"
                   [] OnGitHubAgent(generation) -> "post"
                   [] OTHER -> "create_issue"
    /\ UNCHANGED <<agentcfg, loopvars, generation, event, drv_outcome,
                   drv_error, orchestrator_runs, drv_dispatches, comments,
                   next_id, listed, uoc_args, uoc_result, published,
                   runs_done, exit_code, completed_logged, max_turns,
                   sdk_turns, approvals, github, validation, approved, matching,
                   racers, heap, runs, lookup>>

\* execute_tool("update_or_create_pr_comment", ...) by the PR driver
DriverPublishesPR ==
    /\ drv_pc = "publish"
    /\ action_type = "pr-review"
    /\ ToolFound(tools, tool_implementations, PublishTool(action_type))
    /\ drv_dispatches' = drv_dispatches + 1
    /\ UocList(CommentHeader(action_type),
               PublishBody(action_type, result), "publishing")
    /\ UNCHANGED <<agentcfg, loopvars, generation, event, drv_outcome,
                   drv_error, orchestrator_runs, comments, next_id,
                   published, runs_done, exit_code, completed_logged,
                   max_turns, sdk_turns, approvals, github, validation, approved,
                   matching, racers, heap, runs, lookup>>

DriverUocEdit ==
    /\ drv_pc = "publishing"
    /\ UocEdit("post")
    /\ UNCHANGED <<agentcfg, loopvars, generation, event, drv_outcome,
                   drv_error, orchestrator_runs, drv_dispatches, listed,
                   uoc_args, runs_done, exit_code, completed_logged,
                   max_turns, sdk_turns, approvals, github, validation, approved,
                   matching, racers, heap, runs, lookup>>

DriverUocCreate ==
    /\ drv_pc = "publishing"
    /\ UocCreate("post")
    /\ UNCHANGED <<agentcfg, loopvars, generation, event, drv_outcome,
                   drv_error, orchestrator_runs, drv_dispatches, listed,
                   uoc_args, runs_done, exit_code, completed_logged,
                   max_turns, sdk_turns, approvals, github, validation, approved,
                   matching, racers, heap, runs, lookup>>

\* execute_tool("add_issue_comment", ...) by the issue driver
DriverPublishesIssue ==
    /\ drv_pc = "publish"
    /\ action_type = "issue-analyze"
    /\ ToolFound(tools, tool_implementations, PublishTool(action_type))
    /\ drv_dispatches' = drv_dispatches + 1
    /\ LET body == PublishBody(action_type, result) IN
        /\ comments' = CreateComment(comments, next_id, body)
        /\ published' = Append(published, body)
    /\ next_id' = next_id + 1
    /\ drv_pc' = "post"
    /\ UNCHANGED <<agentcfg, loopvars, generation, event, drv_outcome,
                   drv_error, orchestrator_runs, listed, uoc_args,
                   uoc_result, runs_done, exit_code, completed_logged,
                   max_turns, sdk_turns, approvals, github, validation, approved,
                   matching, racers, heap, runs, lookup>>

\* the publishing call raises before it has read or written a comment: the
\* agent has no such tool, or get_repo, get_pull / get_issue, the listing
\* of the comments, or issue.create_comment fails
PublishRaises ==
    /\ drv_pc = "publish"
    /\ drv_dispatches' = drv_dispatches + 1
    /\ \E e \in DispatchFailures(PublishTool(action_type)) : DriverCatches(e)
    /\ UNCHANGED <<agentcfg, loopvars, generation, event, orchestrator_runs,
                   comments, next_id, listed, uoc_args, uoc_result,
                   published, runs_done, exit_code, completed_logged,
                   max_turns, sdk_turns, approvals, github, validation, approved,
                   matching, racers, heap, runs, lookup>>

\* update-or-create has listed the comments and its write raises:
\* existing_comment.edit(body) or pr.create_issue_comment(body) fails, no
\* comment is changed, and run() returns "Error reviewing PR: ..."
PublishWriteRaises ==
    /\ drv_pc = "publishing"
    /\ \E e \in ToolFailures : DriverCatches(e)
    /\ UNCHANGED <<agentcfg, loopvars, generation, event, orchestrator_runs,
                   drv_dispatches, comments, next_id, listed, uoc_args,
                   uoc_result, published, runs_done, exit_code,
                   completed_logged, max_turns, sdk_turns, approvals, github,
                   validation, approved, matching, racers, heap, runs,
                   lookup>>

\* self.agent.execute_tool("create_issue", {..., "title": "Code Scan
\* Results", ...}) of CodeScanAction of src/src/actions. A GitHubAgent
\* registers no tool of that name, so the call raises "Tool create_issue
\* not found" and run() re-raises it; on an agent that had the tool the
\* issue would be created
ScanCreatesIssue ==
    /\ drv_pc = "create_issue"
    /\ drv_dispatches' = drv_dispatches + 1
    /\ IF ToolFound(tools, tool_implementations, "create_issue")
       THEN /\ github' = [github EXCEPT
                            !.issues = Append(@, "Code Scan Results")]
            /\ drv_outcome' = "ok"
            /\ drv_pc' = "ended"
            /\ UNCHANGED drv_error
       ELSE /\ DriverReraises(NotFoundText("create_issue"))
            /\ UNCHANGED github
    /\ UNCHANGED <<agentcfg, loopvars, generation, event, orchestrator_runs,
                   comments, next_id, listed, uoc_args, uoc_result,
                   published, runs_done, exit_code, completed_logged,
                   max_turns, sdk_turns, approvals, validation, approved,
                   matching, racers, heap, runs, lookup>>

\* response["content"].split("\n") and the section parsing after it, then
\* the scan of response.get("tool_calls", []) for the approval call
PostProcess ==
    /\ drv_pc = "post"
    /\ IF result.content = None
       THEN /\ DriverCatches("'NoneType' object has no attribute 'split'")
            /\ UNCHANGED approved
       ELSE /\ drv_outcome' = "ok"
            /\ drv_pc' = "ended"
            /\ approved' = IF action_type = "pr-review"
                            THEN ShouldApprove(result) ELSE FALSE
            /\ UNCHANGED drv_error
    /\ UNCHANGED <<agentcfg, loopvars, generation, event, orchestrator_runs,
                   drv_dispatches, comments, next_id, listed, uoc_args,
                   uoc_result, published, runs_done, exit_code,
                   completed_logged, max_turns, sdk_turns, approvals, github,
                   validation, matching, racers, heap, runs, lookup>>

\* result = await Runner.run(starting_agent=self.agent, ...,
\* max_turns=MAX_TURNS) of PRReviewAction and IssueAnalyzeAction of
\* src/src/actions
InvokeRunner ==
    /\ drv_pc = "invoke"
    /\ ~RunsGitHubAgent(generation, action_type)
    /\ orchestrator_runs' = orchestrator_runs + 1
    /\ sdk_turns' = 0
    /\ drv_pc' = "sdk_running"
    /\ UNCHANGED <<agentcfg, loopvars, generation, event, drv_outcome,
                   drv_error, drv_dispatches, comments, next_id, listed,
                   uoc_args, uoc_result, published, runs_done, exit_code,
                   completed_logged, max_turns, approvals, github,
                   validation, approved, matching, racers, heap, runs,
                   lookup>>

\* a turn of the runner in which the model calls a tool of the agent, which
\* writes to GitHub what the function tool of that name writes
SdkToolTurn ==
    /\ drv_pc = "sdk_running"
    /\ TurnAllowed(sdk_turns, max_turns)
    /\ sdk_turns' = sdk_turns + 1
    /\ \E i \in 1..Len(tools) : InvokeWrites(tools[i])
    /\ UNCHANGED <<agentcfg, loopvars, generation, event, drv_pc,
                   drv_outcome, drv_error, orchestrator_runs, drv_dispatches,
                   listed, uoc_args, published, runs_done, exit_code,
                   completed_logged, max_turns, validation, approved,
                   matching, racers, heap, runs, lookup>>

\* a turn of the runner in which the model gives its final output
SdkFinalOutput ==
    /\ drv_pc = "sdk_running"
    /\ TurnAllowed(sdk_turns, max_turns)
    /\ sdk_turns' = sdk_turns + 1
    /\ drv_outcome' = "ok"
    /\ drv_pc' = "ended"
    /\ UNCHANGED <<agentcfg, loopvars, generation, event, drv_error,
                   orchestrator_runs, drv_dispatches, comments, next_id,
                   listed, uoc_args, uoc_result, published, runs_done,
                   exit_code, completed_logged, max_turns, approvals, github,
                   validation, approved, matching, racers, heap, runs,
                   lookup>>

\* the runner raises, and run() re-raises: the model call failed, or the
\* turns are used up
SdkRaises ==
    /\ drv_pc = "sdk_running"
    /\ \E e \in IF TurnAllowed(sdk_turns, max_turns)
                 THEN ModelFailures
                 ELSE {MaxTurnsExceededText(max_turns)} : DriverReraises(e)
    /\ UNCHANGED <<agentcfg, loopvars, generation, event, orchestrator_runs,
                   drv_dispatches, comments, next_id, listed, uoc_args,
                   uoc_result, published, runs_done, exit_code,
                   completed_logged, max_turns, sdk_turns, approvals, github,
                   validation, approved, matching, racers, heap, runs,
                   lookup>>

\* src/main.py after run() returned its dict: the outputs are written,
\* success is logged
MainCompletes ==
    /\ drv_pc = "ended"
    /\ OnGitHubAgent(generation)
    /\ completed_logged' = TRUE
    /\ exit_code' = 0
    /\ runs_done' = runs_done + 1
    /\ drv_pc' = "exited"
    /\ UNCHANGED <<agentcfg, loopvars, generation, event, drv_outcome,
                   drv_error, orchestrator_runs, drv_dispatches, comments,
                   next_id, listed, uoc_args, uoc_result, published,
                   max_turns, sdk_turns, approvals, github, validation, approved,
                   matching, racers, heap, runs, lookup>>

\* src/main.py: opening GITHUB_OUTPUT raises, `except Exception` logs the
\* error and calls sys.exit(1)
MainFails ==
    /\ drv_pc = "ended"
    /\ OnGitHubAgent(generation)
    /\ OutputFailures # {}
    /\ exit_code' = 1
    /\ runs_done' = runs_done + 1
    /\ drv_pc' = "exited"
    /\ UNCHANGED <<agentcfg, loopvars, generation, event, drv_outcome,
                   drv_error, orchestrator_runs, drv_dispatches, comments,
                   next_id, listed, uoc_args, uoc_result, published,
                   completed_logged, max_turns, sdk_turns, approvals, github,
                   validation, approved, matching, racers, heap, runs,
                   lookup>>

\* run() of a src/src/actions driver returns or raises to its caller
DriverReturnsToCaller ==
    /\ drv_pc = "ended"
    /\ generation = "sdk"
    /\ runs_done' = runs_done + 1
    /\ drv_pc' = "returned"
    /\ UNCHANGED <<agentcfg, loopvars, generation, event, drv_outcome,
                   drv_error, orchestrator_runs, drv_dispatches, comments,
                   next_id, listed, uoc_args, uoc_result, published,
                   exit_code, completed_logged, max_turns, sdk_turns,
                   approvals, github, validation, approved, matching, racers, heap,
                   runs, lookup>>

\* the workflow is triggered again for the same pull request or issue
NextRun ==
    /\ drv_pc \in {"exited", "returned"}
    /\ runs_done < MaxRuns
    /\ message' = None
    /\ context' = None
    /\ messages' = << >>
    /\ iteration_count' = 0
    /\ pc' = "not_started"
    /\ tool_calls' = << >>
    /\ idx' = 0
    /\ result' = NoResult
    /\ model_calls' = 0
    /\ sent' = << >>
    /\ executed' = << >>
    /\ outcome' = "running"
    /\ failure' = None
    /\ turns' = << >>
    /\ drv_pc' = "start"
    /\ drv_outcome' = "none"
    /\ drv_error' = None
    /\ orchestrator_runs' = 0
    /\ drv_dispatches' = 0
    /\ listed' = << >>
    /\ uoc_args' = [header_marker |-> "", body |-> ""]
    /\ uoc_result' = [action |-> "none", id |-> 0]
    /\ published' = << >>
    /\ exit_code' = NoExit
    /\ completed_logged' = FALSE
    /\ sdk_turns' = 0
    /\ approvals' = 0
    /\ approved' = FALSE
    /\ \E inc \in ScanIncludePatterns :
          matching' = IF matching = NoMatching THEN matching
                      ELSE IF action_type = "code-scan"
                      THEN [matching EXCEPT !.state = "pending",
                                            !.include_patterns = inc,
                                            !.result = << >>]
                      ELSE [matching EXCEPT !.state = "pending",
                                            !.result = << >>]
    /\ UNCHANGED <<action_type, auto_approve_env, custom_prompt,
                   tool_implementations, tools, conversation_history,
                   max_iterations, generation, event, comments, next_id,
                   runs_done, max_turns, github, validation,
                   racers, heap, runs, lookup>>

ActionNext ==
    \/ MainRejectsActionType
    \/ ImportFails
    \/ DriverRejectsEvent
    \/ DriverAcceptsEvent
    \/ PrefetchReturns
    \/ PrefetchRaises
    \/ MatchReturnsNothing
    \/ MatchReturnsFiles
    \/ FetchDiff
    \/ FilesListed
    \/ ReadFile
    \/ InvokeOrchestrator
    \/ CheckLimit
    \/ CallModel
    \/ ModelRaises
    \/ DriverModelRequestsTools
    \/ DriverModelAnswers
    \/ ArgumentsRaise
    \/ ToolNotFound
    \/ InvokeExecutor
    \/ ExecutorReturns
    \/ ExecutorRaises
    \/ OrchestratorReturns
    \/ DriverPublishesPR
    \/ DriverUocEdit
    \/ DriverUocCreate
    \/ DriverPublishesIssue
    \/ PublishRaises
    \/ PublishWriteRaises
    \/ ScanCreatesIssue
    \/ PostProcess
    \/ InvokeRunner
    \/ SdkToolTurn
    \/ SdkFinalOutput
    \/ SdkRaises
    \/ MainCompletes
    \/ MainFails
    \/ DriverReturnsToCaller
    \/ NextRun

ActionSpec == ActionInit /\ [][ActionNext]_vars

-----------------------------------------------------------------------------
(* One PR-review run of the GitHubAgent driver on a valid event, with       *)
(* AUTO_APPROVE set or not, and a model that asks for the approval.         *)

ApprovalEnvValues == {"false", "true", "TRUE"}

ValidEvents ==
    {[number |-> [present |-> TRUE, value |-> 42], full_name |-> "acme/widgets"]}

\* what the model asks of the agent here: an answer, the approval, an
\* approval whose payload is not JSON, the repository without naming it
ApprovalToolCallLists ==
    {<< >>,
     <<ToolCall("call4", "approve_pull_request", PullArgs)>>,
     <<ToolCall("call5", "approve_pull_request", TruncatedArgs)>>,
     <<ToolCall("call6", "get_repository", EmptyArgs)>>}

\* the pull request reviewed here changes one file
ApprovalInit ==
    /\ DriverInit({"legacy", "agent"}, {"pr-review"}, ApprovalEnvValues,
                  ValidEvents, {<< >>})
    /\ max_turns = MAX_TURNS
    /\ matching = [state |-> "pending",
                   files |-> <<[filename |-> "a.py", changes |-> 2]>>,
                   include_patterns |-> {}, exclude_patterns |-> {},
                   max_files |-> DefaultMaxFiles, result |-> << >>]
    /\ racers = NoRacers
    /\ heap = NoHeap
    /\ runs = NoRuns
    /\ lookup = NoLookup

ApprovalModelRequestsTools ==
    ModelRequestsToolsFrom({None}, ApprovalToolCallLists)

ApprovalModelAnswers == ModelAnswersFrom(Contents, ApprovalToolCallLists)

ApprovalNext ==
    \/ DriverAcceptsEvent
    \/ PrefetchReturns
    \/ PrefetchRaises
    \/ MatchReturnsFiles
    \/ FetchDiff
    \/ InvokeOrchestrator
    \/ CheckLimit
    \/ CallModel
    \/ ModelRaises
    \/ ApprovalModelRequestsTools
    \/ ApprovalModelAnswers
    \/ ArgumentsRaise
    \/ ToolNotFound
    \/ InvokeExecutor
    \/ ExecutorReturns
    \/ ExecutorRaises
    \/ OrchestratorReturns
    \/ DriverPublishesPR
    \/ DriverUocCreate
    \/ PublishRaises
    \/ PublishWriteRaises
    \/ PostProcess
    \/ MainCompletes

ApprovalSpec == ApprovalInit /\ [][ApprovalNext]_vars

-----------------------------------------------------------------------------
(* update-or-create comment called on its own, on any list of comments.     *)

\* most comments a pull request or issue carries before the tool is called
MaxComments == 2

CommentBodies ==
    {"## AI Code Review\n\nLooks fine", "## AI Code Review", "Thanks for the patch"}

HeaderMarkers == {"## AI Code Review\n\n", "## AI Code Review"}

NewBodies == {"## AI Code Review\n\nPlease add tests", "Please add tests"}

\* the comment lists the collaborator may hold: ids in order of creation
CommentLists ==
    UNION {{[i \in 1..n |-> [id |-> i, body |-> f[i]]] :
                f \in [1..n -> CommentBodies]} : n \in 0..MaxComments}

ToolInit ==
    /\ generation = "agent"
    /\ action_type \in ActionTypes
    /\ auto_approve_env \in AutoApproveValues
    /\ custom_prompt \in CustomPrompts
    /\ tool_implementations = RegisterTools(action_type, auto_approve_env)
    /\ tools = AdvertisedTools(tool_implementations)
    /\ message = None
    /\ context = None
    /\ conversation_history = << >>
    /\ max_iterations = DefaultMaxIterations
    /\ messages = << >>
    /\ iteration_count = 0
    /\ pc = "not_started"
    /\ tool_calls = << >>
    /\ idx = 0
    /\ result = NoResult
    /\ model_calls = 0
    /\ sent = << >>
    /\ executed = << >>
    /\ outcome = "running"
    /\ failure = None
    /\ turns = << >>
    /\ event = [number |-> [present |-> TRUE, value |-> 42],
                full_name |-> "acme/widgets"]
    /\ drv_pc = "tool_idle"
    /\ drv_outcome = "none"
    /\ drv_error = None
    /\ orchestrator_runs = 0
    /\ drv_dispatches = 0
    /\ comments \in CommentLists
    /\ next_id = Len(comments) + 1
    /\ listed = << >>
    /\ uoc_args = [header_marker |-> "", body |-> ""]
    /\ uoc_result = [action |-> "none", id |-> 0]
    /\ published = << >>
    /\ runs_done = 0
    /\ exit_code = NoExit
    /\ completed_logged = FALSE
    /\ max_turns = MAX_TURNS
    /\ sdk_turns = 0
    /\ approvals = 0
    /\ github = NoWrites
    /\ validation = NoValidation
    /\ approved = FALSE
    /\ Elsewhere

\* calls of a tool made so far that wrote to the repository
DirectCalls ==
    Len(published) + Len(github.reviews) + Len(github.review_comments)

\* execute(parameters) is entered with a marker and a body
ToolCalled ==
    /\ drv_pc = "tool_idle"
    /\ DirectCalls < MaxCalls
    /\ \E marker \in HeaderMarkers, body \in NewBodies :
          UocList(marker, body, "tool_listed")
    /\ UNCHANGED <<agentcfg, loopvars, generation, event, drv_outcome,
                   drv_error, orchestrator_runs, drv_dispatches, comments,
                   next_id, published, runs_done, exit_code,
                   completed_logged, max_turns, sdk_turns, approvals, github,
                   validation, approved, matching, racers, heap, runs,
                   lookup>>

ToolUocEdit ==
    /\ drv_pc = "tool_listed"
    /\ UocEdit("tool_idle")
    /\ UNCHANGED <<agentcfg, loopvars, generation, event, drv_outcome,
                   drv_error, orchestrator_runs, drv_dispatches, listed,
                   uoc_args, runs_done, exit_code, completed_logged,
                   max_turns, sdk_turns, approvals, github, validation, approved,
                   matching, racers, heap, runs, lookup>>

ToolUocCreate ==
    /\ drv_pc = "tool_listed"
    /\ UocCreate("tool_idle")
    /\ UNCHANGED <<agentcfg, loopvars, generation, event, drv_outcome,
                   drv_error, orchestrator_runs, drv_dispatches, listed,
                   uoc_args, runs_done, exit_code, completed_logged,
                   max_turns, sdk_turns, approvals, github, validation, approved,
                   matching, racers, heap, runs, lookup>>

\* CreatePullRequestReviewTool.execute: a review is submitted with the event
\* it is given, and with "Approved after review" where an approval comes
\* without a body
ToolSubmitsReview ==
    /\ drv_pc = "tool_idle"
    /\ DirectCalls < MaxCalls
    /\ \E ev \in PRReviewEvents, body \in ReviewBodies :
          SubmitReview(ev, ReviewBody(ev, body))
    /\ UNCHANGED <<agentcfg, loopvars, generation, event, drv_pc,
                   drv_outcome, drv_error, orchestrator_runs, drv_dispatches,
                   listed, uoc_args, published, runs_done, exit_code,
                   completed_logged, max_turns, sdk_turns, validation,
                   approved, matching, racers, heap, runs, lookup>>

\* CreatePullRequestReviewCommentTool.execute on a file of the pull request
ToolCreatesReviewComment ==
    /\ drv_pc = "tool_idle"
    /\ DirectCalls < MaxCalls
    /\ \E path \in ReviewPaths \cap PullRequestPaths, body \in NewBodies :
          github' = [github EXCEPT
                       !.review_comments =
                           Append(@, [path |-> path, body |-> body])]
    /\ UNCHANGED <<agentcfg, loopvars, generation, event, drv_pc,
                   drv_outcome, drv_error, orchestrator_runs, drv_dispatches,
                   comments, next_id, listed, uoc_args, uoc_result,
                   published, runs_done, exit_code, completed_logged,
                   max_turns, sdk_turns, approvals, validation, approved,
                   matching, racers, heap, runs, lookup>>

\* CreatePullRequestReviewCommentTool.execute on any other path: ValueError
ToolReviewCommentRaises ==
    /\ drv_pc = "tool_idle"
    /\ \E path \in ReviewPaths \ PullRequestPaths :
          drv_error' = PathNotFoundText(path)
    /\ UNCHANGED <<agentcfg, loopvars, generation, event, drv_pc,
                   drv_outcome, orchestrator_runs, drv_dispatches,
                   comments, next_id, listed, uoc_args, uoc_result,
                   published, runs_done, exit_code, completed_logged,
                   max_turns, sdk_turns, approvals, github, validation,
                   approved, matching, racers, heap, runs, lookup>>

ToolNext ==
    \/ ToolCalled
    \/ ToolUocEdit
    \/ ToolUocCreate
    \/ ToolSubmitsReview
    \/ ToolCreatesReviewComment
    \/ ToolReviewCommentRaises

ToolSpec == ToolInit /\ [][ToolNext]_vars

-----------------------------------------------------------------------------
(* The structured output schemas: pydantic models built from an answer.     *)

SchemaNames == {"CodeIssue", "CodeScanResponse", "IssueAnalysisResponse"}

\* the fields a model class declares, in order of declaration
SchemaFields(schema) ==
    CASE schema = "CodeIssue" ->
            <<"file", "line", "severity", "description", "suggestion">>
      [] schema = "CodeScanResponse" ->
            <<"overview", "issues", "good_practices", "recommendations">>
      [] schema = "IssueAnalysisResponse" ->
            <<"summary", "category", "complexity", "priority",
              "related_areas", "next_steps">>

FieldNames(schema) ==
    {SchemaFields(schema)[i] : i \in 1..Len(SchemaFields(schema))}

\* variant: severity is declared with a default as well
FieldHasDefaultLenient(schema, f) ==
    schema = "CodeIssue" /\ f \in {"line", "severity"}

\* Field(..., default=...): the only field declared with a default
FieldHasDefault(schema, f) == schema = "CodeIssue" /\ f = "line"

\* the declared default (every default declared here is None)
FieldDefault(schema, f) == None

\* the value an answer carries for a field, as text
AnswerValue(f) ==
    CASE f = "line" -> "10"
      [] f \in {"issues", "good_practices", "recommendations",
                "related_areas", "next_steps"} -> "[]"
      [] OTHER -> "text"

\* the declared fields the answer leaves out and that have no default
MissingRequired(schema, given) ==
    {f \in FieldNames(schema) : f \notin given /\ ~FieldHasDefault(schema, f)}

\* the model instance built from the fields of an answer
BuildRecord(schema, given) ==
    [f \in FieldNames(schema) |->
        IF f \in given THEN AnswerValue(f) ELSE FieldDefault(schema, f)]

\* no record
NoRecord == [f \in {} |-> None]

SchemaInit ==
    /\ generation = "sdk"
    /\ action_type = "issue-analyze"
    /\ auto_approve_env \in AutoApproveValues
    /\ custom_prompt \in CustomPrompts
    /\ tool_implementations = SdkTools(action_type)
    /\ tools = AdvertisedTools(tool_implementations)
    /\ message = None
    /\ context = None
    /\ conversation_history = << >>
    /\ max_iterations = DefaultMaxIterations
    /\ messages = << >>
    /\ iteration_count = 0
    /\ pc = "not_started"
    /\ tool_calls = << >>
    /\ idx = 0
    /\ result = NoResult
    /\ model_calls = 0
    /\ sent = << >>
    /\ executed = << >>
    /\ outcome = "running"
    /\ failure = None
    /\ turns = << >>
    /\ event = [number |-> [present |-> TRUE, value |-> 42],
                full_name |-> "acme/widgets"]
    /\ drv_pc = "validating"
    /\ drv_outcome = "none"
    /\ drv_error = None
    /\ orchestrator_runs = 0
    /\ drv_dispatches = 0
    /\ comments = << >>
    /\ next_id = 1
    /\ listed = << >>
    /\ uoc_args = [header_marker |-> "", body |-> ""]
    /\ uoc_result = [action |-> "none", id |-> 0]
    /\ published = << >>
    /\ runs_done = 0
    /\ exit_code = NoExit
    /\ completed_logged = FALSE
    /\ max_turns = MAX_TURNS
    /\ sdk_turns = 0
    /\ approvals = 0
    /\ github = NoWrites
    /\ \E schema \in SchemaNames :
        \E given \in SUBSET FieldNames(schema) :
            validation = [schema |-> schema, given |-> given,
                          state |-> "pending", record |-> NoRecord]
    /\ approved = FALSE
    /\ Elsewhere

\* Model(**answer) with every field without default present
ConstructAccepts ==
    /\ drv_pc = "validating"
    /\ validation.state = "pending"
    /\ MissingRequired(validation.schema, validation.given) = {}
    /\ validation' = [validation EXCEPT
                        !.state = "ok",
                        !.record = BuildRecord(validation.schema,
                                               validation.given)]
    /\ UNCHANGED <<agentcfg, loopvars, generation, event, drv_pc,
                   drv_outcome, drv_error, orchestrator_runs, drv_dispatches,
                   comments, next_id, listed, uoc_args, uoc_result,
                   published, runs_done, exit_code, completed_logged,
                   max_turns, sdk_turns, approvals, github, approved, matching,
                   racers, heap, runs, lookup>>

\* Model(**answer) with a field without default left out: ValidationError
ConstructRejects ==
    /\ drv_pc = "validating"
    /\ validation.state = "pending"
    /\ MissingRequired(validation.schema, validation.given) # {}
    /\ validation' = [validation EXCEPT !.state = "validation_error"]
    /\ UNCHANGED <<agentcfg, loopvars, generation, event, drv_pc,
                   drv_outcome, drv_error, orchestrator_runs, drv_dispatches,
                   comments, next_id, listed, uoc_args, uoc_result,
                   published, runs_done, exit_code, completed_logged,
                   max_turns, sdk_turns, approvals, github, approved, matching,
                   racers, heap, runs, lookup>>

SchemaNext ==
    \/ ConstructAccepts
    \/ ConstructRejects

SchemaSpec == SchemaInit /\ [][SchemaNext]_vars

-----------------------------------------------------------------------------
(* PRReviewAction._match_files: which files of the pull request are         *)
(* reviewed.                                                                *)

MatchInit ==
    /\ DriverInit({"legacy"}, {"pr-review"}, AutoApproveValues, ValidEvents,
                  {<< >>})
    /\ max_turns = MAX_TURNS
    /\ \E files \in FileLists :
        \E inc \in SUBSET Patterns :
        \E exc \in SUBSET Patterns :
        \E n \in MaxFilesValues :
            matching = [state |-> "pending", files |-> files,
                        include_patterns |-> inc, exclude_patterns |-> exc,
                        max_files |-> n, result |-> << >>]
    /\ racers = NoRacers
    /\ heap = NoHeap
    /\ runs = NoRuns
    /\ lookup = NoLookup

MatchNext ==
    \/ DriverAcceptsEvent
    \/ PrefetchReturns
    \/ MatchReturnsNothing
    \/ MatchReturnsFiles

MatchSpec == MatchInit /\ [][MatchNext]_vars

-----------------------------------------------------------------------------
(* Which tools an agent advertises, and which names its dispatcher takes.   *)

\* create_code_scan_agent: tools
CodeScanTools ==
    <<"get_repository_info", "get_repository_file_content",
      "get_repository_stats", "create_issue", "search_code",
      "list_repository_files">>

\* the tools of the agent built for an action type
ConfigTools(gen, at, env) ==
    IF gen = "legacy" THEN LegacyTools
    ELSE IF gen = "agent" THEN RegisterTools(at, env)
    ELSE IF at = "code-scan" THEN CodeScanTools
    ELSE SdkTools(at)

\* _TOOL_REGISTRY: the names src.tools.execute_tool dispatches
ToolRegistry ==
    {"get_pull_request", "get_pull_request_files",
     "update_or_create_pr_comment", "get_repository_info",
     "create_pull_request_review", "list_issue_comments",
     "add_labels_to_issue", "add_issue_comment", "list_issue_labels",
     "get_repository_file_content", "search_code", "get_issue",
     "update_or_create_issue_comment", "get_repository_stats",
     "create_issue"}

\* get_tool_by_name(name) is not None
RegistryFound(name) == name \in ToolRegistry

\* tool names a model or a driver may ask for: the names of the registry,
\* the other names a GitHubAgent registers, the approval tool, a function
\* tool that is not in the registry, and a name no code defines
ToolNames ==
    ToolRegistry \cup
    {"get_repository", "get_pull_request_diff", "add_pull_request_comment",
     "list_pull_request_comments", "approve_pull_request",
     "list_repository_files", "delete_repository"}

ConfigInit ==
    /\ generation \in Generations
    /\ action_type \in ConfigActionTypes
    /\ auto_approve_env \in ApprovalEnvValues
    /\ custom_prompt \in CustomPrompts
    /\ tool_implementations
          \in {ConfigTools(generation, action_type, auto_approve_env)}
              \cup (IF OnGitHubAgent(generation)
                    THEN AgentTools(generation, action_type, auto_approve_env)
                    ELSE {})
    /\ tools = AdvertisedTools(tool_implementations)
    /\ message = None
    /\ context = None
    /\ conversation_history = << >>
    /\ max_iterations = DefaultMaxIterations
    /\ messages = << >>
    /\ iteration_count = 0
    /\ pc = "not_started"
    /\ tool_calls = << >>
    /\ idx = 0
    /\ result = NoResult
    /\ model_calls = 0
    /\ sent = << >>
    /\ executed = << >>
    /\ outcome = "running"
    /\ failure = None
    /\ turns = << >>
    /\ event = [number |-> [present |-> TRUE, value |-> 42],
                full_name |-> "acme/widgets"]
    /\ drv_pc = "idle"
    /\ drv_outcome = "none"
    /\ drv_error = None
    /\ orchestrator_runs = 0
    /\ drv_dispatches = 0
    /\ comments = << >>
    /\ next_id = 1
    /\ listed = << >>
    /\ uoc_args = [header_marker |-> "", body |-> ""]
    /\ uoc_result = [action |-> "none", id |-> 0]
    /\ published = << >>
    /\ runs_done = 0
    /\ exit_code = NoExit
    /\ completed_logged = FALSE
    /\ max_turns = MAX_TURNS
    /\ sdk_turns = 0
    /\ approvals = 0
    /\ github = NoWrites
    /\ validation = NoValidation
    /\ approved = FALSE
    /\ matching = NoMatching
    /\ racers = NoRacers
    /\ heap = NoHeap
    /\ runs = NoRuns
    /\ lookup = NoLookup

\* GitHubAgent.execute_tool(name, ...) finds the tool and runs it:
\* `return original_tool.execute(parameters)`
AgentDispatches ==
    /\ OnGitHubAgent(generation)
    /\ \E name \in ToolNames :
        /\ ToolFound(tools, tool_implementations, name)
        /\ lookup' = [name |-> name, found |-> TRUE]
        /\ ExecuteWrites(name)
    /\ UNCHANGED <<agentcfg, loopvars, generation, event, drv_pc,
                   drv_outcome, drv_error, orchestrator_runs, drv_dispatches,
                   listed, uoc_args, published, runs_done, exit_code,
                   completed_logged, max_turns, sdk_turns, validation,
                   approved, matching, racers, heap, runs>>

\* GitHubAgent.execute_tool(name, ...) raises ValueError: Tool ... not found
AgentRejects ==
    /\ OnGitHubAgent(generation)
    /\ \E name \in ToolNames :
        /\ ~ToolFound(tools, tool_implementations, name)
        /\ lookup' = [name |-> name, found |-> FALSE]
    /\ UNCHANGED <<agentcfg, loopvars, generation, event, drv_pc,
                   drv_outcome, drv_error, orchestrator_runs, drv_dispatches,
                   comments, next_id, listed, uoc_args, uoc_result,
                   published, runs_done, exit_code, completed_logged,
                   max_turns, sdk_turns, approvals, github, validation, approved,
                   matching, racers, heap, runs>>

\* src.tools.execute_tool(name, ...) finds the tool in _TOOL_REGISTRY and
\* invokes it: `return await tool_fn.on_invoke_tool(...)`
RegistryDispatches ==
    /\ generation = "sdk"
    /\ \E name \in ToolNames :
        /\ RegistryFound(name)
        /\ lookup' = [name |-> name, found |-> TRUE]
        /\ InvokeWrites(name)
    /\ UNCHANGED <<agentcfg, loopvars, generation, event, drv_pc,
                   drv_outcome, drv_error, orchestrator_runs, drv_dispatches,
                   listed, uoc_args, published, runs_done, exit_code,
                   completed_logged, max_turns, sdk_turns, validation,
                   approved, matching, racers, heap, runs>>

\* src.tools.execute_tool(name, ...) raises ValueError: Tool ... not found
RegistryRejects ==
    /\ generation = "sdk"
    /\ \E name \in ToolNames :
        /\ ~RegistryFound(name)
        /\ lookup' = [name |-> name, found |-> FALSE]
    /\ UNCHANGED <<agentcfg, loopvars, generation, event, drv_pc,
                   drv_outcome, drv_error, orchestrator_runs, drv_dispatches,
                   comments, next_id, listed, uoc_args, uoc_result,
                   published, runs_done, exit_code, completed_logged,
                   max_turns, sdk_turns, approvals, github, validation, approved,
                   matching, racers, heap, runs>>

ConfigNext ==
    \/ AgentDispatches
    \/ AgentRejects
    \/ RegistryDispatches
    \/ RegistryRejects

ConfigSpec == ConfigInit /\ [][ConfigNext]_vars

-----------------------------------------------------------------------------
(* Two invocations of update-or-create at once on one pull request.         *)

\* a program in which no run and no driver is under way
Standstill ==
    /\ generation = "agent"
    /\ action_type = "pr-review"
    /\ auto_approve_env \in AutoApproveValues
    /\ custom_prompt \in CustomPrompts
    /\ tool_implementations = RegisterTools(action_type, auto_approve_env)
    /\ tools = AdvertisedTools(tool_implementations)
    /\ message = None
    /\ context = None
    /\ conversation_history = << >>
    /\ max_iterations = DefaultMaxIterations
    /\ messages = << >>
    /\ iteration_count = 0
    /\ pc = "not_started"
    /\ tool_calls = << >>
    /\ idx = 0
    /\ result = NoResult
    /\ model_calls = 0
    /\ sent = << >>
    /\ executed = << >>
    /\ outcome = "running"
    /\ failure = None
    /\ turns = << >>
    /\ event = [number |-> [present |-> TRUE, value |-> 42],
                full_name |-> "acme/widgets"]
    /\ drv_pc = "idle"
    /\ drv_outcome = "none"
    /\ drv_error = None
    /\ orchestrator_runs = 0
    /\ drv_dispatches = 0
    /\ listed = << >>
    /\ uoc_args = [header_marker |-> "", body |-> ""]
    /\ uoc_result = [action |-> "none", id |-> 0]
    /\ published = << >>
    /\ runs_done = 0
    /\ exit_code = NoExit
    /\ completed_logged = FALSE
    /\ max_turns = MAX_TURNS
    /\ sdk_turns = 0
    /\ approvals = 0
    /\ github = NoWrites
    /\ validation = NoValidation
    /\ approved = FALSE

\* the two invocations
Racers == {1, 2}

\* the marker both invocations pass: the header of the PR review driver
RaceMarker == CommentHeader("pr-review")

\* the bodies the PR review driver may publish
RaceBodies ==
    {PublishBody("pr-review", [content |-> c]) : c \in {"LGTM", "Please add tests"}}

\* an invocation that has been entered and has not listed the comments yet
RacerCalled(body) ==
    [pc |-> "called", header_marker |-> RaceMarker, body |-> body,
     listed |-> << >>, result |-> [action |-> "none", id |-> 0]]

RaceInit ==
    /\ Standstill
    /\ comments \in {cs \in CommentLists : FirstMatch(cs, RaceMarker) = 0}
    /\ next_id = Len(comments) + 1
    /\ racers \in [Racers -> {RacerCalled(b) : b \in RaceBodies}]
    /\ matching = NoMatching
    /\ heap = NoHeap
    /\ runs = NoRuns
    /\ lookup = NoLookup

\* comments = list(pr.get_issue_comments()) in one invocation
RacerLists ==
    /\ \E r \in Racers :
        /\ racers[r].pc = "called"
        /\ racers' = [racers EXCEPT ![r].pc = "listed",
                                    ![r].listed = comments]
    /\ UNCHANGED <<agentcfg, loopvars, generation, event, drv_pc,
                   drv_outcome, drv_error, orchestrator_runs, drv_dispatches,
                   comments, next_id, listed, uoc_args, uoc_result,
                   published, runs_done, exit_code, completed_logged,
                   max_turns, sdk_turns, approvals, github, validation, approved,
                   matching, heap, runs, lookup>>

\* a comment of its list starts with the marker: existing_comment.edit(body)
RacerEdits ==
    /\ \E r \in Racers :
        /\ racers[r].pc = "listed"
        /\ FirstMatch(racers[r].listed, racers[r].header_marker) # 0
        /\ LET c == racers[r].listed[FirstMatch(racers[r].listed,
                                                racers[r].header_marker)]
           IN  /\ comments' = EditComment(comments, c.id, racers[r].body)
               /\ racers' = [racers EXCEPT
                                ![r].pc = "done",
                                ![r].result = [action |-> "updated", id |-> c.id]]
    /\ UNCHANGED <<agentcfg, loopvars, generation, event, drv_pc,
                   drv_outcome, drv_error, orchestrator_runs, drv_dispatches,
                   next_id, listed, uoc_args, uoc_result, published,
                   runs_done, exit_code, completed_logged, max_turns,
                   sdk_turns, approvals, github, validation, approved, matching,
                   heap, runs, lookup>>

\* no comment of its list starts with the marker: pr.create_issue_comment(body)
RacerCreates ==
    /\ \E r \in Racers :
        /\ racers[r].pc = "listed"
        /\ FirstMatch(racers[r].listed, racers[r].header_marker) = 0
        /\ comments' = CreateComment(comments, next_id, racers[r].body)
        /\ next_id' = next_id + 1
        /\ racers' = [racers EXCEPT
                        ![r].pc = "done",
                        ![r].result = [action |-> "created", id |-> next_id]]
    /\ UNCHANGED <<agentcfg, loopvars, generation, event, drv_pc,
                   drv_outcome, drv_error, orchestrator_runs, drv_dispatches,
                   listed, uoc_args, uoc_result, published, runs_done,
                   exit_code, completed_logged, max_turns, sdk_turns,
                   approvals, github, validation, approved, matching, heap, runs,
                   lookup>>

RaceNext ==
    \/ RacerLists
    \/ RacerEdits
    \/ RacerCreates

RaceSpec == RaceInit /\ [][RaceNext]_vars

-----------------------------------------------------------------------------
(* Runs in a chain: the conversation a run returned is handed to the next.  *)

\* what the model answers in the runs of a chain
ChainToolCallLists ==
    {<< >>} \cup {<<c>> : c \in ToolCallValues}

ChainModelRequestsTools == ModelRequestsToolsFrom({None}, ChainToolCallLists)

ChainModelAnswers == ModelAnswersFrom({"LGTM"}, ChainToolCallLists)

\* process_message(message, context, conversation_history =
\* previous["conversation_history"]) on the same agent
ChainRun ==
    /\ pc = "returned"
    /\ runs_done + 1 < MaxRuns
    /\ runs_done' = runs_done + 1
    /\ conversation_history' = result.conversation_history
    /\ message' \in UserMessages
    /\ messages' = SeedMessages(custom_prompt, context, conversation_history',
                                message')
    /\ iteration_count' = 0
    /\ pc' = "loop"
    /\ tool_calls' = << >>
    /\ idx' = 0
    /\ result' = NoResult
    /\ model_calls' = 0
    /\ sent' = << >>
    /\ executed' = << >>
    /\ outcome' = "running"
    /\ failure' = None
    /\ turns' = << >>
    /\ UNCHANGED <<action_type, auto_approve_env, custom_prompt,
                   tool_implementations, tools, context, max_iterations>>
    /\ UNCHANGED <<generation, event, drv_pc, drv_outcome, drv_error,
                   orchestrator_runs, drv_dispatches, comments, next_id,
                   listed, uoc_args, uoc_result, published, exit_code,
                   completed_logged, max_turns, sdk_turns, approvals, github,
                   validation, approved, matching, racers, heap, runs,
                   lookup>>

ChainNext ==
    \/ CheckLimit
    \/ CallModel
    \/ ModelRaises
    \/ ChainModelRequestsTools
    \/ ChainModelAnswers
    \/ ArgumentsRaise
    \/ ToolNotFound
    \/ InvokeExecutor
    \/ ExecutorReturns
    \/ ExecutorRaises
    \/ ChainRun

ChainSpec == Init /\ [][ChainNext]_vars

-----------------------------------------------------------------------------
(* Two process_message runs at once on one agent. Lists are objects: the    *)
(* heap maps the identity of a list to its elements.                        *)

\* the two runs
RunIds == {1, 2}

\* the list the callers hold and pass as conversation_history
SharedHistories ==
    {<< >>,
     <<[role |-> "user", content |-> "What does this repository do?"],
       [role |-> "assistant", content |-> "It packages widgets."]>>}

\* identity of the callers' list
CallerList == 1

\* the user message of each run
RunMessage(r) == IF r = 1 THEN "Please review pull request 1"
                          ELSE "Please review pull request 2"

\* the ToolCall the model sends in a run, and its answer
RunToolCall(r) ==
    ToolCall(IF r = 1 THEN "call_a" ELSE "call_b", "get_repository", RepoArgs)

RunAnswer(r) == IF r = 1 THEN "LGTM 1" ELSE "LGTM 2"

\* variant: the run extends the list it was given instead of building one
RunListShared(h, given) == given

\* messages = [system, *conversation_history, user]: a list of its own
RunList(h, given) == Len(h) + 1

\* the heap once the list of a run holds its first messages
HeapWithList(h, id, msgs) ==
    IF id \in DOMAIN h THEN [h EXCEPT ![id] = msgs] ELSE Append(h, msgs)

\* messages.append(m) on the list with this identity
HeapAppend(h, id, m) == [h EXCEPT ![id] = Append(@, m)]

\* a run that has been called and has not run yet
RunCalled(r, given) ==
    [pc |-> "called", message |-> RunMessage(r), given |-> CallerList,
     snapshot |-> given, messages |-> 0, iteration_count |-> 0,
     own |-> << >>, outcome |-> "running",
     result |-> [content |-> None, conversation_history |-> 0]]

SharedInit ==
    /\ Standstill
    /\ comments = << >>
    /\ next_id = 1
    /\ heap \in {<<h>> : h \in SharedHistories}
    /\ runs = [r \in RunIds |-> RunCalled(r, heap[CallerList])]
    /\ matching = NoMatching
    /\ racers = NoRacers
    /\ lookup = NoLookup

\* the start of process_message: the list of the run is built
RunStarts ==
    /\ \E r \in RunIds :
        /\ runs[r].pc = "called"
        /\ LET id == RunList(heap, runs[r].given)
               seeded == SeedMessages(custom_prompt, context,
                                      heap[runs[r].given], runs[r].message)
           IN  /\ heap' = HeapWithList(heap, id, seeded)
               /\ runs' = [runs EXCEPT ![r].pc = "loop", ![r].messages = id]
    /\ UNCHANGED <<agentcfg, loopvars, generation, event, drv_pc,
                   drv_outcome, drv_error, orchestrator_runs, drv_dispatches,
                   comments, next_id, listed, uoc_args, uoc_result,
                   published, runs_done, exit_code, completed_logged,
                   max_turns, sdk_turns, approvals, github, validation, approved,
                   matching, racers, lookup>>

\* top of the loop with the budget used up
RunChecksLimit ==
    /\ \E r \in RunIds :
        /\ runs[r].pc = "loop"
        /\ LimitReached(runs[r].iteration_count, max_iterations)
        /\ runs' = [runs EXCEPT
                        ![r].pc = "returned",
                        ![r].outcome = "limit",
                        ![r].result = [content |-> LimitContent,
                                       conversation_history |-> runs[r].messages]]
    /\ UNCHANGED <<agentcfg, loopvars, generation, event, drv_pc,
                   drv_outcome, drv_error, orchestrator_runs, drv_dispatches,
                   comments, next_id, listed, uoc_args, uoc_result,
                   published, runs_done, exit_code, completed_logged,
                   max_turns, sdk_turns, approvals, github, validation, approved,
                   matching, racers, heap, lookup>>

\* top of the loop with budget left: the model is called and the run waits
RunCallsModel ==
    /\ \E r \in RunIds :
        /\ runs[r].pc = "loop"
        /\ ~LimitReached(runs[r].iteration_count, max_iterations)
        /\ runs' = [runs EXCEPT
                        ![r].pc = "awaiting_model",
                        ![r].iteration_count = @ + 1]
    /\ UNCHANGED <<agentcfg, loopvars, generation, event, drv_pc,
                   drv_outcome, drv_error, orchestrator_runs, drv_dispatches,
                   comments, next_id, listed, uoc_args, uoc_result,
                   published, runs_done, exit_code, completed_logged,
                   max_turns, sdk_turns, approvals, github, validation, approved,
                   matching, racers, heap, lookup>>

\* the model call raises
RunModelRaises ==
    /\ \E r \in RunIds, e \in ModelFailures :
        /\ runs[r].pc = "awaiting_model"
        /\ runs' = [runs EXCEPT
                        ![r].pc = "returned",
                        ![r].outcome = "model_error",
                        ![r].result = [content |-> "Error: " \o e,
                                       conversation_history |-> runs[r].messages]]
    /\ UNCHANGED <<agentcfg, loopvars, generation, event, drv_pc,
                   drv_outcome, drv_error, orchestrator_runs, drv_dispatches,
                   comments, next_id, listed, uoc_args, uoc_result,
                   published, runs_done, exit_code, completed_logged,
                   max_turns, sdk_turns, approvals, github, validation, approved,
                   matching, racers, heap, lookup>>

\* the model asks for a tool: the turn is appended, the tool is called and
\* the run waits
RunModelRequestsTool ==
    /\ \E r \in RunIds :
        /\ runs[r].pc = "awaiting_model"
        /\ LET m == AssistantDict(None, <<RunToolCall(r)>>)
           IN  /\ heap' = HeapAppend(heap, runs[r].messages, m)
               /\ runs' = [runs EXCEPT ![r].pc = "tool_running",
                                       ![r].own = Append(@, m)]
    /\ UNCHANGED <<agentcfg, loopvars, generation, event, drv_pc,
                   drv_outcome, drv_error, orchestrator_runs, drv_dispatches,
                   comments, next_id, listed, uoc_args, uoc_result,
                   published, runs_done, exit_code, completed_logged,
                   max_turns, sdk_turns, approvals, github, validation, approved,
                   matching, racers, lookup>>

\* the tool returns: its message is appended
RunToolReturns ==
    /\ \E r \in RunIds :
        /\ runs[r].pc = "tool_running"
        /\ \E res \in ExecutorResults(RunToolCall(r).function.name) :
            LET m == ToolMessage(RunToolCall(r), res)
            IN  /\ heap' = HeapAppend(heap, runs[r].messages, m)
                /\ runs' = [runs EXCEPT ![r].pc = "loop",
                                        ![r].own = Append(@, m)]
    /\ UNCHANGED <<agentcfg, loopvars, generation, event, drv_pc,
                   drv_outcome, drv_error, orchestrator_runs, drv_dispatches,
                   comments, next_id, listed, uoc_args, uoc_result,
                   published, runs_done, exit_code, completed_logged,
                   max_turns, sdk_turns, approvals, github, validation, approved,
                   matching, racers, lookup>>

\* the tool raises
RunToolRaises ==
    /\ \E r \in RunIds, e \in ToolFailures :
        /\ runs[r].pc = "tool_running"
        /\ runs' = [runs EXCEPT
                        ![r].pc = "returned",
                        ![r].outcome = "tool_error",
                        ![r].result = [content |-> "Error: " \o e,
                                       conversation_history |-> runs[r].messages]]
    /\ UNCHANGED <<agentcfg, loopvars, generation, event, drv_pc,
                   drv_outcome, drv_error, orchestrator_runs, drv_dispatches,
                   comments, next_id, listed, uoc_args, uoc_result,
                   published, runs_done, exit_code, completed_logged,
                   max_turns, sdk_turns, approvals, github, validation, approved,
                   matching, racers, heap, lookup>>

\* the model answers: the answer is appended and the run returns
RunModelAnswers ==
    /\ \E r \in RunIds :
        /\ runs[r].pc = "awaiting_model"
        /\ LET m == AssistantDict(RunAnswer(r), << >>)
           IN  /\ heap' = HeapAppend(heap, runs[r].messages, m)
               /\ runs' = [runs EXCEPT
                            ![r].pc = "returned",
                            ![r].outcome = "done",
                            ![r].own = Append(@, m),
                            ![r].result = [content |-> RunAnswer(r),
                                           conversation_history |->
                                                runs[r].messages]]
    /\ UNCHANGED <<agentcfg, loopvars, generation, event, drv_pc,
                   drv_outcome, drv_error, orchestrator_runs, drv_dispatches,
                   comments, next_id, listed, uoc_args, uoc_result,
                   published, runs_done, exit_code, completed_logged,
                   max_turns, sdk_turns, approvals, github, validation, approved,
                   matching, racers, lookup>>

SharedNext ==
    \/ RunStarts
    \/ RunChecksLimit
    \/ RunCallsModel
    \/ RunModelRaises
    \/ RunModelRequestsTool
    \/ RunToolReturns
    \/ RunToolRaises
    \/ RunModelAnswers

SharedSpec == SharedInit /\ [][SharedNext]_vars

-----------------------------------------------------------------------------
(* Vocabulary of the properties.                                            *)

Seed == SeedMessages(custom_prompt, context, conversation_history, message)

Returned == pc = "returned"

ErrorOutcomes == {"model_error", "tool_error", "tool_not_found", "arguments_error"}

\* position p of `messages` holds an assistant message that carries ToolCalls
IsToolTurn(p) ==
    /\ messages[p].role = "assistant"
    /\ "tool_calls" \in DOMAIN messages[p]

\* number of tool-role messages that directly follow position p
ToolRun(p) ==
    CHOOSE k \in 0..(Len(messages) - p) :
        /\ \A j \in 1..k : messages[p + j].role = "tool"
        /\ (p + k = Len(messages) \/ messages[p + k + 1].role # "tool")

\* a model call was issued after the assistant message at position p
ModelCalledAfter(p) ==
    \/ \E q \in (p + 1)..Len(messages) : messages[q].role = "assistant"
    \/ model_calls > Len(turns)

\* names with an implementation in this agent
Registered == {tool_implementations[i] : i \in 1..Len(tool_implementations)}

\* the executor was invoked for call number i of the current turn
Dispatched(i) ==
    \E j \in 1..Len(executed) :
        executed[j].turn = iteration_count /\ executed[j].index = i

\* the messages one completed model response and its tool results stand for
TurnMessages(t) ==
    <<IF t.tool_calls = << >>
      THEN [role |-> "assistant", content |-> t.content]
      ELSE [role |-> "assistant", content |-> t.content,
            tool_calls |-> t.tool_calls]>>
    \o [i \in 1..Len(t.results) |->
          [role |-> "tool", tool_call_id |-> t.tool_calls[i].id,
           name |-> t.tool_calls[i].function.name, content |-> t.results[i]]]

RECURSIVE WorkDone(_)
WorkDone(ts) ==
    IF ts = << >> THEN << >>
    ELSE WorkDone(SubSeq(ts, 1, Len(ts) - 1)) \o TurnMessages(ts[Len(ts)])

-----------------------------------------------------------------------------
(* Properties.                                                              *)

\* C1: a run never issues more model calls than its ceiling max_iterations
\* (none at all with ceiling 0), whatever the model answers.
C1_ModelCallsBounded ==
    /\ model_calls <= max_iterations
    /\ model_calls = iteration_count
    /\ Len(turns) <= max_iterations

C1_Witness ==
    /\ Returned
    /\ outcome = "limit"
    /\ max_iterations >= 2
    /\ model_calls = max_iterations

\* C2: a tool executor that raises does not end the run: the error text is
\* appended as the tool-result message of that ToolCall and the loop goes on.
C2_ToolFailureIsolated ==
    outcome = "tool_error" =>
        /\ ~Returned
        /\ messages[Len(messages)].role = "tool"
        /\ messages[Len(messages)].content = failure

\* C3: every ToolCall of a turn is dispatched before the loop goes back to the
\* model or ends, also the ToolCalls that follow one whose executor failed.
C3_AllToolCallsDispatched ==
    ( /\ pc \in {"loop", "returned"}
      /\ HasToolCalls(tool_calls)
      /\ \A i \in 1..Len(tool_calls) :
            /\ JsonLoadsOk(tool_calls[i].function.arguments)
            /\ tool_calls[i].function.name \in Registered )
    => \A i \in 1..Len(tool_calls) : Dispatched(i)

\* C4: the tool messages that follow an assistant message with N ToolCalls
\* carry, in order, the ids of its first ToolCalls, never more than N, and
\* all N are there before a later model call is issued or the run ends with
\* an answer or the limit notice.
C4_ToolResultsCorrelated ==
    \A p \in (Len(Seed) + 1)..Len(messages) :
        IsToolTurn(p) =>
            LET calls == messages[p].tool_calls
                k == ToolRun(p)
            IN  /\ k <= Len(calls)
                /\ \A j \in 1..k :
                      /\ messages[p + j].tool_call_id = calls[j].id
                      /\ messages[p + j].name = calls[j].function.name
                /\ (ModelCalledAfter(p) \/ outcome \in {"done", "limit"})
                      => k = Len(calls)

C4_Witness ==
    /\ pc = "awaiting_model"
    /\ Len(tool_calls) = 2
    /\ tool_calls[1].id # tool_calls[2].id
    /\ tool_calls[1].function.name # tool_calls[2].function.name
    /\ Len(sent) = Len(Seed) + 3
    /\ sent[Len(sent) - 1].tool_call_id = tool_calls[1].id
    /\ sent[Len(sent)].tool_call_id = tool_calls[2].id

\* C5: a failing model call ends the run at once: nothing is retried or
\* dispatched afterwards, the result content is "Error: " and the failure
\* text, and the returned conversation is the one passed to the failing call.
C5_ModelFailureTerminal ==
    outcome = "model_error" =>
        /\ Returned
        /\ ~ENABLED Next
        /\ failure \in ModelFailures
        /\ result.content = "Error: " \o failure
        /\ result.conversation_history = sent
        /\ result.conversation_history = Seed \o WorkDone(turns)
        /\ model_calls = Len(turns) + 1

C5_Witness ==
    /\ outcome = "model_error"
    /\ Returned
    /\ Len(turns) = 1
    /\ Len(turns[1].results) = 1
    /\ Len(result.conversation_history) = Len(Seed) + 2

\* C6: a model response without ToolCalls ends the run DONE at once: its
\* content is the result content, its assistant message is the last message
\* of the returned conversation, and nothing is called afterwards.
C6_AnswerEndsRun ==
    /\ \A t \in 1..Len(turns) :
          turns[t].tool_calls = << >> => (t = Len(turns) /\ outcome = "done")
    /\ outcome = "done" =>
          /\ Returned
          /\ ~ENABLED Next
          /\ turns[Len(turns)].tool_calls = << >>
          /\ result.content = turns[Len(turns)].content
          /\ Len(result.conversation_history) = Len(sent) + 1
          /\ result.conversation_history[Len(sent) + 1] =
                [role |-> "assistant", content |-> result.content]
          /\ model_calls = Len(turns)
          /\ (Len(turns) = 1 => (model_calls = 1 /\ executed = << >>))

C6_Witness ==
    /\ outcome = "done"
    /\ Returned
    /\ Len(turns) = 1
    /\ result.content = "LGTM"

\* C7: when every model response requests ToolCalls and no call fails, a run
\* with ceiling N makes exactly N model calls and returns the fixed limit
\* notice, which no error result can equal (those start with "Error: ").
C7_LimitAfterExactlyN ==
    Returned =>
        /\ ( /\ \A t \in 1..Len(turns) : turns[t].tool_calls # << >>
             /\ outcome \notin ErrorOutcomes )
           => ( /\ outcome = "limit"
                /\ model_calls = max_iterations
                /\ Len(turns) = max_iterations
                /\ result.content = LimitContent )
        /\ outcome = "limit" => ~StartsWith(result.content, "Error: ")
        /\ outcome \in ErrorOutcomes =>
              /\ StartsWith(result.content, "Error: ")
              /\ result.content = "Error: " \o failure
              /\ result.content # LimitContent

C7_Witness ==
    /\ Returned
    /\ max_iterations = 2
    /\ model_calls = 2
    /\ \A t \in 1..Len(turns) : turns[t].tool_calls # << >>
    /\ result.content = LimitContent

\* C8: the conversation returned on budget exhaustion is the seed messages
\* followed, turn by turn, by each assistant message and its tool results:
\* nothing dropped, nothing added for the limit notice.
C8_LimitConversationExact ==
    outcome = "limit" =>
        /\ result.conversation_history = Seed \o WorkDone(turns)
        /\ \A t \in 1..Len(turns) :
              Len(turns[t].results) = Len(turns[t].tool_calls)

C8_Witness ==
    /\ outcome = "limit"
    /\ Len(turns) = 2
    /\ Len(turns[1].tool_calls) = 2
    /\ Len(result.conversation_history) >= Len(Seed) + 5

\* C9: under fair scheduling of model and tool calls every run reaches a
\* terminal outcome (answer, limit notice or error result).
C9_RunTerminates == <>(pc = "returned")

C9_Witness ==
    /\ Returned
    /\ outcome \in {"done", "limit"} \cup ErrorOutcomes
    /\ iteration_count = max_iterations
    /\ Len(executed) >= 2

\* C10: a ToolCall naming a tool that is not registered invokes no executor,
\* is not skipped, and ends the run with "Tool <name> not found" in the
\* result and no further model call.
C10_UnknownToolFatal ==
    /\ \A j \in 1..Len(executed) : executed[j].call.function.name \in Registered
    /\ \A p \in (Len(Seed) + 1)..Len(messages) :
          messages[p].role = "tool" => messages[p].name \in Registered
    /\ outcome = "tool_not_found" =>
          /\ Returned
          /\ ~ENABLED Next
          /\ tool_calls[idx].function.name \notin Registered
          /\ ~Dispatched(idx)
          /\ result.content =
                "Error: Tool " \o tool_calls[idx].function.name \o " not found"
          /\ result.conversation_history = Seed \o WorkDone(turns)
          /\ model_calls = Len(turns)

C10_Witness ==
    /\ outcome = "tool_not_found"
    /\ Returned
    /\ idx = 2
    /\ Len(executed) = 1
    /\ result.content = "Error: Tool get_issue not found"

\* C11: in every state of a run the first message is the system prompt, and
\* every step leaves the messages already in the conversation where and as
\* they were: the conversation only grows at its end.
C11_SystemFirstAppendOnly ==
    /\ [](/\ Len(messages) >= 1
          /\ messages[1] = [role |-> "system",
                            content |-> GetSystemPrompt(custom_prompt, context)])
    /\ [][/\ Len(messages') >= Len(messages)
          /\ SubSeq(messages', 1, Len(messages)) = messages]_vars

C11_Witness ==
    /\ Returned
    /\ Len(messages) >= Len(Seed) + 4
    /\ messages[1].role = "system"
    /\ \E p \in 2..Len(messages) : messages[p].role = "tool"

\* model calls issued and not yet answered or failed
OutstandingModelCalls ==
    model_calls - Len(turns) - (IF outcome = "model_error" THEN 1 ELSE 0)

\* executor invocations started and not yet returned or failed
ToolCallsInFlight ==
    Len(executed) - (Len(WorkDone(turns)) - Len(turns))
                  - (IF outcome = "tool_error" THEN 1 ELSE 0)

\* C12: the loop is strictly sequential: at most one model call is
\* outstanding, at most one tool call is in flight, never both at once, and
\* while a model call is outstanding every ToolCall of every earlier
\* assistant turn has been dispatched and has its result.
C12_StrictlySequential ==
    /\ OutstandingModelCalls \in {0, 1}
    /\ ToolCallsInFlight \in {0, 1}
    /\ OutstandingModelCalls + ToolCallsInFlight <= 1
    /\ (OutstandingModelCalls = 1) <=> (pc = "awaiting_model")
    /\ (ToolCallsInFlight = 1) <=> (pc = "tool_running")
    /\ OutstandingModelCalls = 1 =>
          \A t \in 1..Len(turns) :
              /\ Len(turns[t].results) = Len(turns[t].tool_calls)
              /\ \A i \in 1..Len(turns[t].tool_calls) :
                    \E j \in 1..Len(executed) :
                        /\ executed[j].turn = t
                        /\ executed[j].index = i

C12_Witness ==
    /\ pc = "awaiting_model"
    /\ OutstandingModelCalls = 1
    /\ Len(turns) >= 1
    /\ Len(turns[Len(turns)].tool_calls) = 2
    /\ Len(turns[Len(turns)].results) = 2
\* the event lacks the repository name or, for the drivers of pull requests
\* and issues, the number (absent or empty)
IdentifierMissing ==
    \/ event.full_name \in {None, ""}
    \/ /\ action_type \in {"pr-review", "issue-analyze"}
       /\ ~event.number.present \/ event.number.value = 0

\* run() of a driver was called and has ended
DriverRan ==
    \/ drv_pc \in {"ended", "returned"}
    \/ drv_pc = "exited" /\ drv_outcome \notin {"none", "import_error"}

\* sub occurs somewhere in s
Contains(s, sub) ==
    \E i \in 1..(Len(s) - Len(sub) + 1) : SubSeq(s, i, i + Len(sub) - 1) = sub

\* C13: for an event that lacks a required identifier the driver's run ends
\* in its missing-information error (the drivers of src/actions return the
\* dict that carries it, the drivers of src/src/actions raise the ValueError
\* that carries it), and neither the driver nor an orchestrator dispatches a
\* tool or calls the model: zero dispatches, zero orchestrator invocations,
\* nothing written. (Where no driver is run, because main does not know the
\* action type or an import fails, nothing is dispatched either.)
C13_MissingIdentifierFailsEarly ==
    IdentifierMissing =>
        /\ drv_dispatches = 0
        /\ orchestrator_runs = 0
        /\ model_calls = 0
        /\ executed = << >>
        /\ sdk_turns = 0
        /\ published = << >>
        /\ github = NoWrites
        /\ drv_pc \in {"start", "ended", "exited", "returned"}
        /\ DriverRan =>
              IF OnGitHubAgent(generation)
              THEN /\ drv_outcome = "error_result"
                   /\ drv_error = MissingInfoSummary(action_type)
              ELSE /\ drv_outcome = "raised"
                   /\ drv_error = MissingInfoValueError(action_type)
        /\ (drv_pc = "exited" /\ drv_outcome = "none") =>
              action_type \notin ConfigActionTypes
        /\ drv_outcome = "import_error" => generation = "sdk"

C13_Witness ==
    /\ IdentifierMissing
    /\ generation = "sdk"
    /\ action_type = "pr-review"
    /\ event.number = [present |-> TRUE, value |-> 0]
    /\ event.full_name = "acme/widgets"
    /\ drv_pc = "returned"
    /\ drv_outcome = "raised"
    /\ drv_error = "Missing required PR information in GitHub event"
    /\ drv_dispatches = 0

\* the model call of this run failed
ModelCallFailed ==
    \/ outcome = "model_error"
    \/ generation = "sdk" /\ drv_error \in ModelFailures

\* C14: whenever the event lacks a required identifier or the model call
\* fails, the process ends with a non-zero exit status and without logging
\* 'Action completed successfully'.
C14_FatalErrorsFailTheRun ==
    (drv_pc = "exited" /\ (IdentifierMissing \/ ModelCallFailed)) =>
        /\ exit_code # 0
        /\ exit_code # NoExit
        /\ ~completed_logged

\* C15: when a tool executor failed inside the orchestrator loop, no body the
\* driver published contains the tool's error text, unless an answer of the
\* model contains it.
C15_ToolErrorsNotPublished ==
    outcome = "tool_error" =>
        \A i \in 1..Len(published) :
            Contains(published[i], failure) =>
                \E t \in 1..Len(turns) :
                    /\ turns[t].content # None
                    /\ Contains(turns[t].content, failure)

\* a driver's run on an event that carries its identifiers has ended
ValidRunEnded ==
    DriverRan /\ drv_pc \in {"exited", "returned"} /\ ~IdentifierMissing

\* the run has invoked process_message or Runner.run exactly once
InvokedExactlyOnce == orchestrator_runs = 1

\* the model was queried at most MAX_TURNS times, the value configured for
\* the process
WithinConfiguredCeiling ==
    /\ model_calls <= max_turns
    /\ sdk_turns <= max_turns

\* C16: a driver run on a valid event has invoked the orchestrator exactly
\* once when it ends, and the invocation queried the model at most MAX_TURNS
\* times, the configured iteration ceiling (30 unless configured).
C16_OrchestratorOnceWithinMaxTurns ==
    ValidRunEnded => (InvokedExactlyOnce /\ WithinConfiguredCeiling)

\* positions of `cs` whose body starts with the marker
Marked(cs, marker) == {i \in 1..Len(cs) : StartsWith(cs[i].body, marker)}

\* the smallest element of a non-empty set of positions
Least(S) == CHOOSE i \in S : \A j \in S : i <= j

\* C17: after update-or-create has run on the listed comments: if some listed
\* comment starts with the marker, the first such comment in list order has
\* the new body, every other comment is as it was, no comment was created
\* and the result is 'updated' with that comment's id; if none does, exactly
\* one comment with the new body was added after the others and the result
\* is 'created' with its id.
C17_UpdateOrCreate ==
    (drv_pc = "tool_idle" /\ uoc_result.action # "none") =>
        LET m == Marked(listed, uoc_args.header_marker) IN
        IF m # {}
        THEN /\ uoc_result = [action |-> "updated", id |-> listed[Least(m)].id]
             /\ Len(comments) = Len(listed)
             /\ comments[Least(m)] = [id |-> listed[Least(m)].id,
                                      body |-> uoc_args.body]
             /\ \A j \in 1..Len(listed) : j # Least(m) => comments[j] = listed[j]
        ELSE /\ uoc_result.action = "created"
             /\ Len(comments) = Len(listed) + 1
             /\ comments[Len(comments)] = [id |-> uoc_result.id,
                                           body |-> uoc_args.body]
             /\ SubSeq(comments, 1, Len(listed)) = listed
             /\ \A j \in 1..Len(listed) : listed[j].id # uoc_result.id

C17_Witness ==
    /\ drv_pc = "tool_idle"
    /\ uoc_result.action = "updated"
    /\ Cardinality(Marked(listed, uoc_args.header_marker)) = 2
    /\ uoc_result.id = 1
    /\ comments[2] = listed[2]

\* a GitHubAgent driver of pull-request reviews is running
ReviewDriver == OnGitHubAgent(generation) /\ action_type = "pr-review"

\* positions of the comments that start with the review header
ReviewMarked == Marked(comments, "## AI Code Review\n\n")

\* C18: on a pull request that starts without a marker-prefixed comment, the
\* sequential runs of the PR-review driver never leave more than one comment
\* that starts with the header marker; a run that publishes leaves exactly
\* one: it creates the comment if there was none, and otherwise edits the one
\* there is, which keeps its id and its place, and adds no comment. A run
\* whose publishing call fails, before or after the comments were listed,
\* leaves every comment as it was.
C18_OneReviewCommentAcrossRuns ==
    /\ [](ReviewDriver => Cardinality(ReviewMarked) <= 1)
    /\ [][(ReviewDriver /\ drv_pc \in {"publish", "publishing"}
                /\ drv_pc' = "ended") => comments' = comments]_vars
    /\ [][(ReviewDriver /\ drv_pc = "publishing" /\ drv_pc' = "post") =>
            /\ Cardinality(ReviewMarked') = 1
            /\ ReviewMarked = {} =>
                  /\ uoc_result'.action = "created"
                  /\ Len(comments') = Len(comments) + 1
            /\ ReviewMarked # {} =>
                  /\ uoc_result'.action = "updated"
                  /\ Len(comments') = Len(comments)
                  /\ ReviewMarked' = ReviewMarked
                  /\ \A i \in ReviewMarked :
                        /\ comments'[i].id = comments[i].id
                        /\ uoc_result'.id = comments[i].id]_vars

C18_Witness ==
    /\ ReviewDriver
    /\ runs_done = 1
    /\ drv_pc = "post"
    /\ uoc_result.action = "updated"
    /\ Len(comments) = 2
    /\ Cardinality(ReviewMarked) = 1
\* the fields the schemas of the code scan require
RequiredOf(schema) ==
    CASE schema = "CodeIssue" ->
            {"file", "severity", "description", "suggestion"}
      [] schema = "CodeScanResponse" ->
            {"overview", "issues", "good_practices", "recommendations"}
      [] OTHER -> {}

\* C19: building CodeIssue or CodeScanResponse from an answer that leaves out
\* at least one required field fails with a validation error and yields no
\* record; an answer with every required field is accepted, each given field
\* keeps its value, and CodeIssue.line is None when it was left out.
C19_RequiredFieldsEnforced ==
    (validation.schema \in {"CodeIssue", "CodeScanResponse"}
        /\ validation.state # "pending") =>
        LET req == RequiredOf(validation.schema) IN
        IF req \ validation.given # {}
        THEN /\ validation.state = "validation_error"
             /\ validation.record = [f \in {} |-> None]
        ELSE /\ validation.state = "ok"
             /\ \A f \in validation.given :
                    validation.record[f] = AnswerValue(f)
             /\ (validation.schema = "CodeIssue"
                    /\ "line" \notin validation.given) =>
                        validation.record["line"] = None

C19_Witness ==
    /\ validation.schema = "CodeIssue"
    /\ validation.state = "ok"
    /\ validation.given = {"file", "severity", "description", "suggestion"}
    /\ validation.record["line"] = None

\* the rejection half of the same claim is reached as well
C19_RejectionReached ==
    /\ validation.schema = "CodeIssue"
    /\ validation.state = "validation_error"
    /\ validation.given = {"file", "line", "description", "suggestion"}
\* the tools through which an approving review can be submitted
ApprovalTools == {"approve_pull_request", "create_pull_request_review"}

\* AUTO_APPROVE is 'true' and the action type is pr-review
ApprovalEnabled == Lower(auto_approve_env) = "true" /\ action_type = "pr-review"

\* no approval tool is advertised or registered, the dispatcher took none,
\* none was dispatched, and no approving review was submitted
NoApprovalPossible ==
    /\ \A i \in 1..Len(tools) : tools[i] \notin ApprovalTools
    /\ \A i \in 1..Len(tool_implementations) :
          tool_implementations[i] \notin ApprovalTools
    /\ lookup # NoLookup => ~(lookup.found /\ lookup.name \in ApprovalTools)
    /\ \A j \in 1..Len(executed) :
          executed[j].call.function.name \notin ApprovalTools
    /\ approvals = 0

\* C20: unless AUTO_APPROVE is 'true' and the action type is pr-review, no
\* approval-issuing tool is advertised to the model or dispatchable, and no
\* sequence of model responses gets an approving review submitted.
C20_ApprovalGated == ~ApprovalEnabled => NoApprovalPossible

\* the same gate, for the drivers that run GitHubAgent only
ApprovalGatedInGitHubAgent ==
    (OnGitHubAgent(generation) /\ ~ApprovalEnabled) => NoApprovalPossible
\* C25: the ceiling is tested at the top of the loop only. When the run
\* returns the limit notice after N >= 1 model calls, the N-th response asked
\* for ToolCalls and every one of them was dispatched and answered before the
\* return; the conversation last sent to the model holds none of these
\* results, the returned conversation holds all of them.
C25_LimitDoesNotCancelTools ==
    (outcome = "limit" /\ max_iterations >= 1) =>
        LET n == Len(turns)
            last == turns[Len(turns)] IN
        /\ n = max_iterations
        /\ HasToolCalls(last.tool_calls)
        /\ Len(last.results) = Len(last.tool_calls)
        /\ \A i \in 1..Len(last.tool_calls) :
              \E j \in 1..Len(executed) :
                  /\ executed[j].turn = n
                  /\ executed[j].index = i
                  /\ executed[j].call = last.tool_calls[i]
        /\ Len(messages) = Len(sent) + 1 + Len(last.tool_calls)
        /\ SubSeq(messages, 1, Len(sent)) = sent
        /\ \A p \in (Len(sent) + 2)..Len(messages) : messages[p].role = "tool"
        /\ result.conversation_history = messages
        /\ model_calls = n

C25_Witness ==
    /\ outcome = "limit"
    /\ Returned
    /\ max_iterations = 2
    /\ Len(turns[2].tool_calls) = 2
    /\ Len(turns[2].results) = 2
    /\ Len(executed) >= 3

\* position of the nearest assistant message before position p
AssistantBefore(p) ==
    CHOOSE q \in 1..(p - 1) :
        /\ messages[q].role = "assistant"
        /\ \A r \in (q + 1)..(p - 1) : messages[r].role # "assistant"

\* C26: every dispatch made by the loop executes a ToolCall of the most
\* recent assistant message, at its position in that message; no ToolCall of
\* a turn is dispatched twice; and every tool-role message the run has added
\* carries the id of a ToolCall of the nearest assistant message before it.
C26_ToolCallsOnlyFromModel ==
    /\ [](/\ \A j \in 1..Len(executed) :
                /\ executed[j].turn \in 1..Len(turns)
                /\ executed[j].index \in 1..Len(turns[executed[j].turn].tool_calls)
                /\ executed[j].call =
                      turns[executed[j].turn].tool_calls[executed[j].index]
          /\ \A j, k \in 1..Len(executed) :
                (executed[j].turn = executed[k].turn
                    /\ executed[j].index = executed[k].index) => j = k
          /\ \A p \in (Len(Seed) + 1)..Len(messages) :
                messages[p].role = "tool" =>
                    /\ \E q \in (Len(Seed) + 1)..(p - 1) :
                          messages[q].role = "assistant"
                    /\ "tool_calls" \in DOMAIN messages[AssistantBefore(p)]
                    /\ \E i \in 1..Len(messages[AssistantBefore(p)].tool_calls) :
                          messages[AssistantBefore(p)].tool_calls[i].id
                              = messages[p].tool_call_id)
    /\ [][executed' # executed =>
            /\ Len(executed') = Len(executed) + 1
            /\ SubSeq(executed', 1, Len(executed)) = executed
            /\ messages[Len(messages)].role \in {"assistant", "tool"}
            /\ executed'[Len(executed')].turn = Len(turns)
            /\ \E q \in 1..Len(messages) :
                  /\ messages[q].role = "assistant"
                  /\ \A r \in (q + 1)..Len(messages) :
                        messages[r].role # "assistant"
                  /\ "tool_calls" \in DOMAIN messages[q]
                  /\ executed'[Len(executed')].index
                        \in 1..Len(messages[q].tool_calls)
                  /\ messages[q].tool_calls[executed'[Len(executed')].index]
                        = executed'[Len(executed')].call]_vars

C26_Witness ==
    /\ Returned
    /\ outcome = "done"
    /\ Len(executed) = 2
    /\ \E p \in 1..Len(result.conversation_history) :
          /\ result.conversation_history[p].role = "tool"
          /\ result.conversation_history[p].tool_call_id = "call2"

\* the payloads the model sends here that json.loads cannot parse
IsUnparsable(s) == s = "{"

\* C29: a ToolCall with an unparsable argument payload ends the run: neither
\* it nor a later ToolCall of its turn is dispatched, no model call follows
\* the turn, the run returns an error result, and the results of the earlier
\* ToolCalls of the turn are in the returned conversation.
C29_MalformedArgumentsTerminal ==
    /\ \A t \in 1..Len(turns) : \A i \in 1..Len(turns[t].tool_calls) :
          IsUnparsable(turns[t].tool_calls[i].function.arguments) =>
              /\ \A j \in 1..Len(executed) :
                    executed[j].turn = t => executed[j].index < i
              /\ Len(turns[t].results) < i
              /\ t = Len(turns)
              /\ model_calls = t
              /\ Returned =>
                    /\ outcome \in ErrorOutcomes
                    /\ StartsWith(result.content, "Error: ")
                    /\ result.conversation_history = Seed \o WorkDone(turns)
    /\ outcome = "arguments_error" =>
          /\ Returned
          /\ ~ENABLED Next
          /\ IsUnparsable(tool_calls[idx].function.arguments)
          /\ Len(turns[Len(turns)].results) = idx - 1
          /\ result.content = "Error: " \o failure
          /\ result.conversation_history = messages
          /\ Len(messages) = Len(sent) + idx

C29_Witness ==
    /\ outcome = "arguments_error"
    /\ Returned
    /\ idx = 2
    /\ Len(turns[Len(turns)].results) = 1
    /\ result.conversation_history[Len(result.conversation_history)].role = "tool"
\* the model issued an approve_pull_request ToolCall at some turn of the run
ApprovalIssued ==
    \E t \in 1..Len(turns) : \E i \in 1..Len(turns[t].tool_calls) :
        turns[t].tool_calls[i].function.name = "approve_pull_request"

\* C21: when the PR-review driver has returned its result, approved is true
\* exactly when the model issued an approve_pull_request ToolCall at some
\* turn of the run.
C21_ApprovedReportsToolCalls ==
    (drv_pc \in {"ended", "exited"} /\ drv_outcome = "ok") =>
        (approved <=> ApprovalIssued)

\* a pattern of ps matches the filename of f
MatchesAny(f, ps) == \E p \in ps : Fnmatch(FilenameOf(f), p)

\* the files of the call that pass the patterns
Eligible ==
    {matching.files[i] : i \in
        {k \in 1..Len(matching.files) :
            /\ ~MatchesAny(matching.files[k], matching.exclude_patterns)
            /\ \/ matching.include_patterns = {}
               \/ MatchesAny(matching.files[k], matching.include_patterns)}}

\* the files of a list
FilesIn(s) == {s[i] : i \in 1..Len(s)}

\* a _match_files call with a pattern configured has returned
MatchedWithPatterns ==
    /\ matching.state = "done"
    /\ matching.include_patterns \cup matching.exclude_patterns # {}

\* C22: with a pattern configured, _match_files returns only files that match
\* no exclude pattern and (if include patterns exist) some include pattern,
\* each once, most changes first, as many as there are such files up to
\* max_files, and no file left out has more changes than a file returned.
C22_MatchFiles ==
    MatchedWithPatterns =>
        LET r == matching.result
            n == Cardinality(Eligible)
        IN  /\ FilesIn(r) \subseteq Eligible
            /\ \A f \in FilesIn(r) : ~MatchesAny(f, matching.exclude_patterns)
            /\ \A i, j \in 1..Len(r) : i < j =>
                    /\ r[i] # r[j]
                    /\ ChangesOf(r[i]) >= ChangesOf(r[j])
            /\ Len(r) = (IF n < matching.max_files THEN n ELSE matching.max_files)
            /\ Len(r) <= matching.max_files
            /\ \A f \in Eligible \ FilesIn(r) :
                    \A g \in FilesIn(r) : ChangesOf(f) <= ChangesOf(g)

\* C22 witness: a call returned where a file matched an include and an
\* exclude pattern and was left out, and the cut to max_files dropped a file
C22_Witness ==
    /\ MatchedWithPatterns
    /\ \E f \in FilesIn(matching.files) :
            /\ MatchesAny(f, matching.include_patterns)
            /\ MatchesAny(f, matching.exclude_patterns)
            /\ f \notin FilesIn(matching.result)
    /\ Cardinality(Eligible) > matching.max_files
    /\ matching.max_files > 0
    /\ Len(matching.result) = matching.max_files

\* the names the agent of the state advertises to the model
Advertised == {tools[i] : i \in 1..Len(tools)}

\* tools that read the repository, whatever the action
RepositoryTools ==
    {"get_repository", "get_repository_info", "get_repository_file_content",
     "get_repository_stats", "search_code", "list_repository_files"}

\* tools that read or write a pull request
PullRequestTools ==
    {"get_pull_request", "get_pull_request_files", "get_pull_request_diff",
     "update_or_create_pr_comment", "approve_pull_request",
     "create_pull_request_review"}

\* tools that read or write an issue
IssueTools ==
    {"get_issue", "add_issue_comment", "update_or_create_issue_comment",
     "list_issue_comments", "add_labels_to_issue", "list_issue_labels",
     "create_issue"}

\* the agent advertises a tool describing the repository, the file reader and
\* the statistics
HasCommonTools ==
    /\ Advertised \cap {"get_repository", "get_repository_info"} # {}
    /\ {"get_repository_file_content", "get_repository_stats"} \subseteq Advertised

\* pr-review: common and pull-request tools only; issue-analyze: common and
\* issue tools only
SubsetFollowsReviewOrAnalyze ==
    /\ action_type = "pr-review" =>
          /\ HasCommonTools
          /\ Advertised \cap PullRequestTools # {}
          /\ Advertised \subseteq RepositoryTools \cup PullRequestTools
    /\ action_type = "issue-analyze" =>
          /\ HasCommonTools
          /\ Advertised \cap IssueTools # {}
          /\ Advertised \subseteq RepositoryTools \cup IssueTools

\* C23 as stated: pr-review exposes common plus pull-request tools and no issue
\* tool, issue-analyze common plus issue tools and no pull-request tool, and
\* every other action type only the common tools, for every agent.
C23_SubsetFollowsActionType ==
    /\ SubsetFollowsReviewOrAnalyze
    /\ action_type \notin {"pr-review", "issue-analyze"} =>
          /\ HasCommonTools
          /\ Advertised \subseteq RepositoryTools

\* the same for a GitHubAgent of src/src/github_agent.py that was given its
\* action type
SubsetFollowsActionTypeWhenGiven ==
    (generation = "agent"
        /\ tool_implementations = RegisterTools(action_type, auto_approve_env))
    => /\ SubsetFollowsReviewOrAnalyze
       /\ action_type \notin {"pr-review", "issue-analyze"} =>
             /\ HasCommonTools
             /\ Advertised \subseteq RepositoryTools

\* C24: a tool name handed to the dispatcher of an agent is accepted exactly
\* when the agent advertises it.
C24_AdvertisedIffDispatchable ==
    lookup # NoLookup => (lookup.found <=> lookup.name \in Advertised)

\* the same for GitHubAgent.execute_tool alone
AdvertisedIffDispatchableInGitHubAgent ==
    (OnGitHubAgent(generation) /\ lookup # NoLookup) =>
        (lookup.found <=> lookup.name \in Advertised)

\* every concurrent invocation has returned
RaceOver == racers # NoRacers /\ \A r \in DOMAIN racers : racers[r].pc = "done"

\* C27: when two concurrent invocations with the same marker, started on a
\* pull request without a marker-prefixed comment, have both returned, the
\* pull request holds exactly one comment that starts with the marker.
C27_OneMarkedCommentAfterRace ==
    RaceOver => Cardinality(Marked(comments, RaceMarker)) = 1

\* the same when the invocations do not overlap: each lists the comments
\* only after the other has returned
OneMarkedCommentWithoutOverlap ==
    (RaceOver /\ \E r \in DOMAIN racers : racers[r].result.action = "updated")
        => Cardinality(Marked(comments, RaceMarker)) = 1

\* positions of the system-role messages of a conversation
SystemPositions(msgs) == {i \in 1..Len(msgs) : msgs[i].role = "system"}

\* C30: also in a run that was given the conversation returned by the run
\* before it, the conversation sent to the model holds exactly one
\* system-role message, the first.
C30_OneSystemMessageWhenChained ==
    sent # << >> => SystemPositions(sent) = {1}

\* the same for the first run of a chain, which is given no conversation
OneSystemMessageInFirstRun ==
    (sent # << >> /\ runs_done = 0) => SystemPositions(sent) = {1}

\* the conversation a run of its own would hold: its seed, then what it
\* appended itself
OwnConversation(r) ==
    <<[role |-> "system", content |-> GetSystemPrompt(custom_prompt, context)]>>
    \o runs[r].snapshot
    \o <<[role |-> "user", content |-> runs[r].message]>>
    \o runs[r].own

\* C28: of two process_message runs interleaved on one agent, each returns a
\* conversation holding exactly the messages of its own run, in a list no
\* other run works on, and the list the callers supplied as
\* conversation_history stays as it was.
C28_RunsShareNoConversation ==
    runs # NoRuns =>
        /\ \A r \in DOMAIN runs :
            /\ heap[runs[r].given] = runs[r].snapshot
            /\ runs[r].pc = "returned" =>
                /\ runs[r].result.conversation_history # runs[r].given
                /\ heap[runs[r].result.conversation_history] = OwnConversation(r)
        /\ \A r, s \in DOMAIN runs :
            (r # s /\ runs[r].messages # 0) => runs[r].messages # runs[s].messages

\* C28 witness: the first run has returned its answer after a tool call while
\* the second, started from the same non-empty list, still waits for its tool
C28_Witness ==
    /\ runs # NoRuns
    /\ Len(heap[CallerList]) = 2
    /\ runs[1].pc = "returned"
    /\ runs[1].outcome = "done"
    /\ Len(runs[1].own) = 3
    /\ runs[2].pc = "tool_running"
    /\ Len(runs[2].own) = 1

====
